---------------------------- MODULE Spec2Model ----------------------------
(***************************************************************************)
(* Topology engine of OpenPNM's GenericNetwork                             *)
(* (src/OpenPNM/Network/__GenericNetwork__.py): the stored arrays          *)
(* 'pore.coords', 'throat.conns', 'pore.all', 'throat.all' and the other   *)
(* 'pore.*' / 'throat.*' arrays, the cached adjacency and incidence        *)
(* matrices, and the structural mutations extend, clone and trim.          *)
(*                                                                         *)
(* Conventions.  A numpy array is a sequence; the element with numpy index *)
(* i is the (i+1)-th element of the sequence.  Pore and throat numbers are *)
(* the numpy (0-based) indices.  A row of 'pore.coords' is a tuple of      *)
(* three numbers, a row of 'throat.conns' a tuple of two pore numbers.     *)
(* A stored property array is a record [dtype, data].                      *)
(*                                                                         *)
(* A call that raises ends the modelled run: a caller that catches the     *)
(* exception sees the state the raise left behind, which is the last state *)
(* of the behaviour.                                                       *)
(*                                                                         *)
(* Inputs are lists (not arrays), pore lists name existing pores, and no   *)
(* trim empties the network of pores or of throats (sparse matrices with a *)
(* zero dimension are not modelled).                                       *)
(***************************************************************************)
EXTENDS Integers, Sequences, FiniteSets, TLC

\* ------------------------------------------------------------------------
\* Bounds of the model
\* ------------------------------------------------------------------------
\* largest number of pores a modelled call may produce
MaxNp == 5
\* largest number of pores of a network that is queried
MaxQueryNp == 4
\* largest number of throats of a network that is queried
MaxQueryNt == 3
\* longest list of pores handed to a query
MaxListLen == 3
\* largest number of pores a label array marks
MaxLabelled == 2
\* largest number of pore pairs handed to find_connecting_throat
MaxPairs == 2
\* largest number of throats a modelled call may produce
MaxNt == 4
\* number of calls in one modelled run, the trims that undo an extend aside
MaxOps == 2

\* ------------------------------------------------------------------------
\* State
\* ------------------------------------------------------------------------
VARIABLES
    coords,            \* self['pore.coords']
    conns,             \* self['throat.conns']
    pore_all,          \* self['pore.all']
    throat_all,        \* self['throat.all']
    props,             \* every other key of the dict: <<element, name>> -> array
    adjacency_matrix,  \* self._adjacency_matrix : format -> matrix or {}
    incidence_matrix,  \* self._incidence_matrix : format -> matrix or {}
    geometries,        \* self._geometries : the attached Geometry objects
    phases,            \* self._phases : the attached Phase objects
    query,             \* history: the last query, its arguments and its result
    last,              \* history: the last call, its arguments and outcome
    pre,               \* history: the stored arrays before the last call
    rt,                \* history: progress of an extend / trim round trip
    nops               \* history: number of calls made

vars == <<coords, conns, pore_all, throat_all, props,
          adjacency_matrix, incidence_matrix, geometries, phases,
          query, last, pre, rt, nops>>

\* ------------------------------------------------------------------------
\* numpy helpers
\* ------------------------------------------------------------------------
\* valid numpy indices of an array
Idx(arr) == 0 .. (Len(arr) - 1)

\* arr[i] with a numpy index
At(arr, i) == arr[i + 1]

\* sp.array: the elements of an array, stored one by one
array(f) == f \o <<>>

\* sp.ones((n,), dtype=bool)
ones(n) == array([i \in 1..n |-> TRUE])

\* sp.zeros((n,), dtype=bool)
zeros(n) == array([i \in 1..n |-> FALSE])

\* sp.nan
NaN == -1

\* sp.size of a two-dimensional array given as a list of rows
RECURSIVE size(_)
size(rows) == IF rows = <<>> THEN 0 ELSE Len(Head(rows)) + size(Tail(rows))

\* arr[mask] for a boolean mask as long as arr
RECURSIVE mask_select(_, _)
mask_select(arr, mask) ==
    IF arr = <<>> THEN <<>>
    ELSE (IF Head(mask) THEN <<Head(arr)>> ELSE <<>>)
         \o mask_select(Tail(arr), Tail(mask))

\* the sorted sequence of the members of a finite set of integers
RECURSIVE sorted(_)
sorted(S) ==
    IF S = {} THEN <<>>
    ELSE LET m == CHOOSE x \in S : \A y \in S : x <= y
         IN  <<m>> \o sorted(S \ {m})

\* the set of elements of a sequence
Range(s) == {s[i] : i \in 1..Len(s)}

\* sp.unique of a one-dimensional integer array
unique(arr) == sorted(Range(arr))

\* sp.hstack of a list of one-dimensional arrays
RECURSIVE hstack(_)
hstack(lists) == IF lists = <<>> THEN <<>> ELSE Head(lists) \o hstack(Tail(lists))

\* sp.bincount(arr)[v]
bincount(arr, v) == Cardinality({i \in 1..Len(arr) : arr[i] = v})

\* sp.vstack((a, b)) raises unless every row of b is as wide as the rows of a
vstack_raises(b, width) == \E i \in 1..Len(b) : Len(b[i]) # width

\* a vstack that puts the rows of b first
vstack_front(a, b) == b \o a

\* sp.vstack((a, b)) of two lists of rows
vstack(a, b) == a \o b


\* ------------------------------------------------------------------------
\* Core (OpenPNM.Base.Core): element counts and index lists
\* ------------------------------------------------------------------------
\* the part of the object the methods read and write; S plays 'self'
Self == [coords |-> coords, conns |-> conns, pore_all |-> pore_all,
         throat_all |-> throat_all, props |-> props,
         adjacency_matrix |-> adjacency_matrix,
         incidence_matrix |-> incidence_matrix,
         geometries |-> geometries, phases |-> phases]

\* self.pores('all') : the indices at which 'pore.all' is true
pores_all(S) == SelectSeq(array([i \in 1..Len(S.pore_all) |-> i - 1]),
                          LAMBDA p : At(S.pore_all, p))

\* self.throats('all') : the indices at which 'throat.all' is true
throats_all(S) == SelectSeq(array([i \in 1..Len(S.throat_all) |-> i - 1]),
                            LAMBDA t : At(S.throat_all, t))

\* self.num_pores()
num_pores(S) == Len(pores_all(S))

\* self.num_throats()
num_throats(S) == Len(throats_all(S))

\* self._count(element)
count(S, element) == IF element = "pore" THEN num_pores(S) ELSE num_throats(S)

\* self.pores(labels=name), self.throats(labels=name) : the indices at which
\* the label array of that name is true
labelled(S, element, name) ==
    LET arr == S.props[<<element, name>>].data
    IN  SelectSeq(array([i \in 1..Len(arr) |-> i - 1]), LAMBDA p : At(arr, p))

\* ------------------------------------------------------------------------
\* scipy.sparse matrices
\* ------------------------------------------------------------------------
\* the value of a cache entry after _update_network cleared it
Cleared == [format |-> "none"]

\* sprs.coo_matrix((data, (row, col)), (M, N))
coo_matrix(data, row, col, M, N) ==
    [format |-> "coo", shape |-> <<M, N>>, row |-> row, col |-> col, data |-> data]

\* the constructor raises on an index outside the shape
coo_raises(row, col, M, N) ==
    \/ \E i \in 1..Len(row) : row[i] \notin 0..(M - 1)
    \/ \E i \in 1..Len(col) : col[i] \notin 0..(N - 1)

\* sum of the entries of a coo matrix stored at (r, c)
RECURSIVE entry_sum(_, _, _, _)
entry_sum(m, r, c, i) ==
    IF i > Len(m.data) THEN 0
    ELSE (IF m.row[i] = r /\ m.col[i] = c THEN m.data[i] ELSE 0)
         + entry_sum(m, r, c, i + 1)

\* the sorted column indices stored in row r
row_cols(m, r) == sorted({m.col[i] : i \in {j \in 1..Len(m.row) : m.row[j] = r}})

\* the values of row r, duplicates summed, in column order
row_vals(m, r) ==
    LET cs == row_cols(m, r) IN array([k \in 1..Len(cs) |-> entry_sum(m, r, cs[k], 1)])

\* coo.tolil(): one sorted list of columns and one list of values per row
tolil(m) ==
    [format |-> "lil", shape |-> m.shape,
     rows |-> array([r \in 1..m.shape[1] |-> row_cols(m, r - 1)]),
     data |-> array([r \in 1..m.shape[1] |-> row_vals(m, r - 1)])]

\* number of stored entries in rows 0 .. r-1 after duplicates are summed
RECURSIVE nnz_before(_, _)
nnz_before(m, r) ==
    IF r = 0 THEN 0 ELSE nnz_before(m, r - 1) + Len(row_cols(m, r - 1))

\* coo.tocsr(): compressed rows, duplicates summed
tocsr(m) ==
    [format |-> "csr", shape |-> m.shape,
     indptr |-> array([r \in 1..(m.shape[1] + 1) |-> nnz_before(m, r - 1)]),
     indices |-> hstack([r \in 1..m.shape[1] |-> row_cols(m, r - 1)]),
     data |-> hstack([r \in 1..m.shape[1] |-> row_vals(m, r - 1)])]

\* 'Convert to requested format'
convert(m, sprsfmt) ==
    IF sprsfmt = "csr" THEN tocsr(m)
    ELSE IF sprsfmt = "lil" THEN tolil(m)
    ELSE m

\* data = sp.ones((self.num_throats(),)) : the weights used when data is None
default_data(S) == array([t \in 1..num_throats(S) |-> 1])

\* ind : the throats entered into the matrix
keep_mask(data, dropzeros) ==
    IF dropzeros THEN array([t \in 1..Len(data) |-> data[t] > 0])
    ELSE array([t \in 1..Len(data) |-> TRUE])

\* conn[:,k] for k = 0, 1
column(conn, k) == array([t \in 1..Len(conn) |-> At(conn[t], k)])

\* create_adjacency_matrix up to the coo constructor: the triples handed to it
adjacency_args(S, data, dropzeros, sym) ==
    LET ind == keep_mask(data, dropzeros)
        conn == mask_select(S.conns, ind)
        d == mask_select(data, ind)
    IN  [row |-> IF sym THEN column(conn, 0) \o column(conn, 1) ELSE column(conn, 0),
         col |-> IF sym THEN column(conn, 1) \o column(conn, 0) ELSE column(conn, 1),
         data |-> IF sym THEN d \o d ELSE d]

\* create_adjacency_matrix raises
\* self['throat.conns'][ind]: a True entry of the mask past the last row
mask_index_raises(arr, mask) == \E t \in 1..Len(mask) : mask[t] /\ t > Len(arr)

create_adjacency_matrix_raises(S, data, dropzeros, sym) ==
    \/ Len(data) # num_throats(S)
    \/ mask_index_raises(S.conns, keep_mask(data, dropzeros))
    \/ LET a == adjacency_args(S, data, dropzeros, sym)
       IN  coo_raises(a.row, a.col, num_pores(S), num_pores(S))

\* create_adjacency_matrix(data, sprsfmt, dropzeros, sym)
create_adjacency_matrix(S, data, sprsfmt, dropzeros, sym) ==
    LET a == adjacency_args(S, data, dropzeros, sym)
    IN  convert(coo_matrix(a.data, a.row, a.col, num_pores(S), num_pores(S)), sprsfmt)

\* incidence arguments that list the first end of every throat twice
incidence_args_one_end(S, data, dropzeros) ==
    LET ind == keep_mask(data, dropzeros)
        conn == mask_select(S.conns, ind)
        row == column(conn, 0) \o column(conn, 0)
        col == mask_select(throats_all(S), ind)
        d == mask_select(data, ind)
    IN  [row |-> row, col |-> col \o col, data |-> d \o d]

\* create_incidence_matrix up to the coo constructor
incidence_args(S, data, dropzeros) ==
    LET ind == keep_mask(data, dropzeros)
        conn == mask_select(S.conns, ind)
        row == column(conn, 0) \o column(conn, 1)
        col == mask_select(throats_all(S), ind)
        d == mask_select(data, ind)
    IN  [row |-> row, col |-> col \o col, data |-> d \o d]

\* create_incidence_matrix raises
create_incidence_matrix_raises(S, data, dropzeros) ==
    \/ Len(data) # num_throats(S)
    \/ mask_index_raises(S.conns, keep_mask(data, dropzeros))
    \/ LET a == incidence_args(S, data, dropzeros)
       IN  coo_raises(a.row, a.col, num_pores(S), num_throats(S))

\* create_incidence_matrix(data, sprsfmt, dropzeros)
create_incidence_matrix(S, data, sprsfmt, dropzeros) ==
    LET a == incidence_args(S, data, dropzeros)
    IN  convert(coo_matrix(a.data, a.row, a.col, num_pores(S), num_throats(S)), sprsfmt)


\* ------------------------------------------------------------------------
\* Core.__setitem__ and the cache reset
\* ------------------------------------------------------------------------
\* self[key] = value for a key other than coords, conns, all: a key that an
\* attached Geometry defines is refused; a value of length one is broadcast
\* to the element count, a value as long as the element count is stored,
\* any other length is refused
setitem(S, key, value) ==
    LET n == count(S, key[1])
        put(v) == [S EXCEPT !.props = (key :> v) @@ S.props]
    IN  IF \E g \in 1..Len(S.geometries) : key \in DOMAIN S.geometries[g].props
        THEN S
        ELSE IF Len(value.data) = 1
        THEN put([dtype |-> value.dtype, data |-> array([i \in 1..n |-> value.data[1]])])
        ELSE IF Len(value.data) = n THEN put(value)
        ELSE S

\* the three formats _update_network writes
Formats == {"coo", "csr", "lil"}

\* _update_network raises (only in mode 'regenerate', from a create_* call)
update_network_raises(S, mode) ==
    /\ mode = "regenerate"
    /\ \/ create_adjacency_matrix_raises(S, default_data(S), TRUE, TRUE)
       \/ create_incidence_matrix_raises(S, default_data(S), TRUE)

\* _update_network(mode): the object when the call returns or raises
update_network(S, mode) ==
    LET cleared == [f \in Formats |-> Cleared]
        adj == [f \in Formats |->
                   create_adjacency_matrix(S, default_data(S), f, TRUE, TRUE)]
        inc == [f \in Formats |->
                   create_incidence_matrix(S, default_data(S), f, TRUE)]
    IN  IF mode # "regenerate"
        THEN [S EXCEPT !.adjacency_matrix = cleared, !.incidence_matrix = cleared]
        ELSE IF create_adjacency_matrix_raises(S, default_data(S), TRUE, TRUE)
        THEN [S EXCEPT !.adjacency_matrix = cleared, !.incidence_matrix = cleared]
        ELSE IF create_incidence_matrix_raises(S, default_data(S), TRUE)
        THEN [S EXCEPT !.adjacency_matrix = adj, !.incidence_matrix = cleared]
        ELSE [S EXCEPT !.adjacency_matrix = adj, !.incidence_matrix = inc]

\* ------------------------------------------------------------------------
\* find_neighbor_throats
\* ------------------------------------------------------------------------
\* the try block succeeds: the cache holds a list-of-lists matrix with a row
\* for every pore asked for
lil_usable(cache, pores) ==
    /\ "lil" \in DOMAIN cache
    /\ cache["lil"].format = "lil"
    /\ \A i \in 1..Len(pores) : pores[i] \in Idx(cache["lil"].rows)

\* find_neighbor_throats raises: the matrix has to be built and cannot be
find_neighbor_throats_raises(S, pores) ==
    /\ ~lil_usable(S.incidence_matrix, pores)
    /\ \/ create_incidence_matrix_raises(S, default_data(S), TRUE)
       \/ \E i \in 1..Len(pores) : pores[i] \notin 0..(num_pores(S) - 1)

\* self._incidence_matrix after the call
find_neighbor_throats_cache(S, pores) ==
    IF lil_usable(S.incidence_matrix, pores) THEN S.incidence_matrix
    ELSE [f \in DOMAIN S.incidence_matrix \cup {"lil"} |->
             IF f = "lil" THEN create_incidence_matrix(S, default_data(S), "lil", TRUE)
             ELSE S.incidence_matrix[f]]

\* the mode filter with the count-of-one branch taken for 'union' as well
mode_filter_once(stacked, mode) ==
    IF mode = "not_intersection" \/ mode = "union"
    THEN sorted({v \in Range(stacked) : bincount(stacked, v) = 1})
    ELSE IF mode = "intersection"
    THEN sorted({v \in Range(stacked) : bincount(stacked, v) > 1})
    ELSE stacked

\* the mode filter applied to the stacked rows
mode_filter(stacked, mode) ==
    IF mode = "not_intersection"
    THEN sorted({v \in Range(stacked) : bincount(stacked, v) = 1})
    ELSE IF mode = "union" THEN unique(stacked)
    ELSE IF mode = "intersection"
    THEN sorted({v \in Range(stacked) : bincount(stacked, v) > 1})
    ELSE stacked

\* the same search with the input pores stacked onto the throat rows before
\* the mode filter, as find_neighbor_pores stacks them onto its pore rows
find_neighbor_throats_stacked(S, pores, mode, flatten) ==
    LET lil == find_neighbor_throats_cache(S, pores)["lil"]
        neighborTs == array([i \in 1..Len(pores) |-> At(lil.rows, pores[i])])
        nonempty == SelectSeq(neighborTs, LAMBDA x : x # <<>>)
    IN  IF nonempty = <<>> THEN <<>>
        ELSE IF flatten THEN mode_filter(hstack(nonempty) \o pores, mode)
        ELSE neighborTs

\* find_neighbor_throats(pores, mode, flatten): the value returned
find_neighbor_throats(S, pores, mode, flatten) ==
    LET lil == find_neighbor_throats_cache(S, pores)["lil"]
        neighborTs == array([i \in 1..Len(pores) |-> At(lil.rows, pores[i])])
        nonempty == SelectSeq(neighborTs, LAMBDA x : x # <<>>)
    IN  IF nonempty = <<>> THEN <<>>
        ELSE IF flatten THEN mode_filter(hstack(nonempty), mode)
        ELSE neighborTs

\* ------------------------------------------------------------------------
\* find_neighbor_pores
\* ------------------------------------------------------------------------
\* find_neighbor_pores raises: the matrix has to be built and cannot be
find_neighbor_pores_raises(S, pores) ==
    /\ ~lil_usable(S.adjacency_matrix, pores)
    /\ \/ create_adjacency_matrix_raises(S, default_data(S), TRUE, TRUE)
       \/ \E i \in 1..Len(pores) : pores[i] \notin 0..(num_pores(S) - 1)

\* self._adjacency_matrix after the call
find_neighbor_pores_cache(S, pores) ==
    IF lil_usable(S.adjacency_matrix, pores) THEN S.adjacency_matrix
    ELSE [f \in DOMAIN S.adjacency_matrix \cup {"lil"} |->
             IF f = "lil"
             THEN create_adjacency_matrix(S, default_data(S), "lil", TRUE, TRUE)
             ELSE S.adjacency_matrix[f]]

\* the same selection with the mask not inverted: the members of pores kept
in1d_kept(neighborPs, pores) == SelectSeq(neighborPs, LAMBDA v : v \in Range(pores))

\* neighborPs[~sp.in1d(neighborPs, pores)]
not_in1d(neighborPs, pores) ==
    SelectSeq(neighborPs, LAMBDA v : v \notin Range(pores))

\* find_neighbor_pores(pores, mode, flatten, excl_self): the value returned
find_neighbor_pores(S, pores, mode, flatten, excl_self) ==
    LET lil == find_neighbor_pores_cache(S, pores)["lil"]
        neighborPs == array([i \in 1..Len(pores) |-> At(lil.rows, pores[i])])
        nonempty == SelectSeq(neighborPs, LAMBDA x : x # <<>>)
        filtered == mode_filter(hstack(nonempty) \o pores, mode)
    IN  IF nonempty = <<>> THEN <<>>
        ELSE IF flatten
        THEN (IF excl_self THEN not_in1d(filtered, pores) ELSE filtered)
        ELSE neighborPs

\* the network after the find_neighbor_pores call on the pores
after_neighbor_pores(S, pores) ==
    IF find_neighbor_pores_raises(S, pores) THEN S
    ELSE [S EXCEPT !.adjacency_matrix = find_neighbor_pores_cache(S, pores)]

\* ------------------------------------------------------------------------
\* extend
\* ------------------------------------------------------------------------
\* an array left at its old length
grown_unpadded(arr, N) == arr

\* a growth that does not write the old booleans back
grown_forgetful(arr, N) ==
    IF arr.dtype = "bool"
    THEN [dtype |-> "bool", data |-> array([i \in 1..N |-> FALSE])]
    ELSE [dtype |-> "float",
          data |-> array([i \in 1..N |-> IF i <= Len(arr.data) THEN arr.data[i] ELSE NaN])]

\* one existing array grown to N elements: booleans padded with False,
\* everything else turned into floats padded with nan
grown(arr, N) ==
    IF arr.dtype = "bool"
    THEN [dtype |-> "bool",
          data |-> array([i \in 1..N |-> i <= Len(arr.data) /\ arr.data[i]])]
    ELSE [dtype |-> "float",
          data |-> array([i \in 1..N |-> IF i <= Len(arr.data) THEN arr.data[i] ELSE NaN])]

\* the loop over self.keys() of extend, one key after the other
RECURSIVE extend_props(_, _, _, _)
extend_props(S, keys, Np, Nt) ==
    IF keys = {} THEN S
    ELSE LET item == CHOOSE k \in keys : TRUE
             N == IF item[1] = "pore" THEN Np ELSE Nt
         IN  extend_props(setitem(S, item, grown(S.props[item], N)),
                          keys \ {item}, Np, Nt)

\* 'Network has active Geometries, cannot proceed' / '... active Phases ...':
\* the checks at the head of clone and extend; trim makes only the second
has_dependents(S, geometries_too) ==
    \/ geometries_too /\ S.geometries # <<>>
    \/ S.phases # <<>>

\* the width of a row of 'pore.coords'
CoordsWidth == 3

\* the width of a row of 'throat.conns'
ConnsWidth == 2

\* extend raises (a vstack of rows of different widths)
extend_raises(S, pore_coords, throat_conns) ==
    \/ has_dependents(S, TRUE)
    \/ pore_coords # <<>> /\ vstack_raises(pore_coords, CoordsWidth)
    \/ throat_conns # <<>> /\ vstack_raises(throat_conns, ConnsWidth)

\* extend(pore_coords, throat_conns): the object when the call returns or raises
extend(S, pore_coords, throat_conns) ==
    LET Nt == num_throats(S) + (size(throat_conns) \div ConnsWidth)
        Np == num_pores(S) + (size(pore_coords) \div CoordsWidth)
        S1 == [S EXCEPT !.pore_all = ones(Np), !.throat_all = ones(Nt)]
        S2 == IF pore_coords # <<>>
              THEN [S1 EXCEPT !.coords = vstack(S.coords, pore_coords)]
              ELSE S1
        S3 == IF throat_conns # <<>>
              THEN [S2 EXCEPT !.conns = vstack(S.conns, throat_conns)]
              ELSE S2
        S4 == extend_props(S3, DOMAIN S3.props, Np, Nt)
    IN  IF has_dependents(S, TRUE) THEN S
        ELSE IF pore_coords # <<>> /\ vstack_raises(pore_coords, CoordsWidth) THEN S1
        ELSE IF throat_conns # <<>> /\ vstack_raises(throat_conns, ConnsWidth) THEN S2
        ELSE update_network(S4, "clear")


\* ------------------------------------------------------------------------
\* clone
\* ------------------------------------------------------------------------
\* 'Add clone labels to network': a missing label array is created all False
RECURSIVE add_labels(_, _)
add_labels(S, apply_label) ==
    IF apply_label = <<>> THEN S
    ELSE LET item == Head(apply_label)
             false == [dtype |-> "bool", data |-> <<FALSE>>]
             S1 == IF <<"pore", item>> \notin DOMAIN S.props
                   THEN setitem(S, <<"pore", item>>, false) ELSE S
             S2 == IF <<"throat", item>> \notin DOMAIN S1.props
                   THEN setitem(S1, <<"throat", item>>, false) ELSE S1
         IN  add_labels(S2, Tail(apply_label))

\* arr[index > N] = True: the first new element is missed
set_from_late(arr, N) ==
    [arr EXCEPT !.data = array([i \in 1..Len(arr.data) |-> IF i - 1 > N THEN TRUE ELSE @[i]])]

\* arr[index >= N] = True, written into the stored array
set_from(arr, N) ==
    [arr EXCEPT !.data = array([i \in 1..Len(arr.data) |-> IF i - 1 >= N THEN TRUE ELSE @[i]])]

\* 'Apply provided labels to cloned pores'
RECURSIVE apply_labels(_, _, _, _)
apply_labels(S, apply_label, Np, Nt) ==
    IF apply_label = <<>> THEN S
    ELSE LET item == Head(apply_label)
             S1 == [S EXCEPT !.props[<<"pore", item>>] = set_from(@, Np),
                             !.props[<<"throat", item>>] = set_from(@, Nt)]
         IN  apply_labels(S1, Tail(apply_label), Np, Nt)

\* tclone of mode 'parents': sp.vstack((parents, clones)).T
parents_tclone(pores, Np) == array([k \in 1..Len(pores) |-> <<pores[k], Np + (k - 1)>>])

\* tclone of mode 'siblings': self['throat.conns'][ts] + self.num_pores()
siblings_tclone(S, ts) ==
    array([k \in 1..Len(ts) |->
        <<At(S.conns, ts[k])[1] + num_pores(S), At(S.conns, ts[k])[2] + num_pores(S)>>])

\* clone raises: the neighbor search of mode 'siblings' cannot build its matrix
clone_raises(S, pores, apply_label, mode) ==
    \/ has_dependents(S, TRUE)
    \/ mode = "siblings" /\ find_neighbor_throats_raises(add_labels(S, apply_label), pores)

\* clone(pores, apply_label, mode): the object when the call returns or raises
clone(S, pores, apply_label, mode) ==
    LET Np == num_pores(S)
        Nt == num_throats(S)
        pclone == array([k \in 1..Len(pores) |-> At(S.coords, pores[k])])
        S1 == add_labels(S, apply_label)
        ts == find_neighbor_throats(S1, pores, "intersection", TRUE)
        S1q == [S1 EXCEPT !.incidence_matrix = find_neighbor_throats_cache(S1, pores)]
        S2 == IF mode = "parents" THEN extend(S1, pclone, parents_tclone(pores, Np))
              ELSE IF mode = "siblings" THEN extend(S1q, pclone, siblings_tclone(S1q, ts))
              ELSE IF mode = "isolated" THEN extend(S1, pclone, <<>>)
              ELSE S1
        S3 == apply_labels(S2, apply_label, Np, Nt)
    IN  IF has_dependents(S, TRUE) THEN S
        ELSE IF clone_raises(S, pores, apply_label, mode) THEN S1
        ELSE update_network(S3, "clear")

\* ------------------------------------------------------------------------
\* trim
\* ------------------------------------------------------------------------
\* a boolean array of length n, True at the given indices
index_mask(indices, n) == array([i \in 1..n |-> (i - 1) \in Range(indices)])

\* ~mask
invert(mask) == array([i \in 1..Len(mask) |-> ~mask[i]])

\* Pkeep
trim_Pkeep(S, pores, throats) ==
    IF pores # <<>> THEN invert(index_mask(pores, num_pores(S)))
    ELSE ones(num_pores(S))

\* Tkeep
trim_Tkeep(S, pores, throats) ==
    IF pores # <<>>
    THEN invert(index_mask(find_neighbor_throats(S, pores, "union", TRUE), num_throats(S)))
    ELSE invert(index_mask(throats, num_throats(S)))

\* Pmap: the new index of every kept pore, -1 for a dropped one
trim_Pmap(Pkeep) ==
    array([i \in 1..Len(Pkeep) |->
        IF Pkeep[i] THEN Cardinality({j \in 1..(i - 1) : Pkeep[j]}) ELSE -1])

\* Pmap[tpore[Tkeep]] is an index error
remap_raises(S, Tkeep) ==
    LET kept == mask_select(S.conns, Tkeep)
    IN  \E t \in 1..Len(kept) : \E k \in 1..2 : kept[t][k] \notin 0..(num_pores(S) - 1)

\* the surviving rows with the old pore numbers left in
remapped_conns_unmapped(S, Pkeep, Tkeep) == mask_select(S.conns, Tkeep)

\* sp.vstack((Tnew1, Tnew2)).T
remapped_conns(S, Pkeep, Tkeep) ==
    LET kept == mask_select(S.conns, Tkeep)
        Pmap == trim_Pmap(Pkeep)
    IN  array([t \in 1..Len(kept) |-> <<At(Pmap, kept[t][1]), At(Pmap, kept[t][2])>>])

\* 'Overwrite remaining data and info', one key after the other
RECURSIVE trim_props(_, _, _, _, _)
trim_props(S, old, keys, Pkeep, Tkeep) ==
    IF keys = {} THEN S
    ELSE LET key == CHOOSE k \in keys : TRUE
             temp == old[key]
             keep == IF key[1] = "throat" THEN Tkeep ELSE Pkeep
             deleted == [S EXCEPT !.props = [k \in DOMAIN S.props \ {key} |-> S.props[k]]]
         IN  trim_props(setitem(deleted, key,
                                [dtype |-> temp.dtype, data |-> mask_select(temp.data, keep)]),
                        old, keys \ {key}, Pkeep, Tkeep)

\* 'Trim associated Geometry objects': one Geometry after the network's own
\* arrays were written
trim_geometry(S, geom, Pkeep, Tkeep) ==
    LET kept(map, keep) == array([i \in 1..Len(map) |-> At(keep, map[i])])
        Pgeom == kept(geom.pore_map, Pkeep)
        Tgeom == kept(geom.throat_map, Tkeep)
    IN  [geom EXCEPT
            !.pore_all = mask_select(Pgeom, Pgeom),
            !.throat_all = mask_select(Tgeom, Tgeom),
            !.pore_map = labelled(S, "pore", geom.name),
            !.throat_map = labelled(S, "throat", geom.name),
            !.props = [key \in DOMAIN @ |->
                         [@[key] EXCEPT !.data =
                             mask_select(@, IF key[1] = "throat" THEN Tgeom ELSE Pgeom)]]]

\* the stored arrays after the writes of trim, before the caches are reset
trim_arrays(S, pores, throats) ==
    LET Pkeep == trim_Pkeep(S, pores, throats)
        Tkeep == trim_Tkeep(S, pores, throats)
        Tnew == remapped_conns(S, Pkeep, Tkeep)
        Pnew == mask_select(pores_all(S), Pkeep)
        S1 == [S EXCEPT !.throat_all = ones(Len(Tnew)),
                        !.pore_all = ones(Len(Pnew)),
                        !.conns = Tnew,
                        !.coords = mask_select(S.coords, Pkeep),
                        !.incidence_matrix =
                            IF pores # <<>> THEN find_neighbor_throats_cache(S, pores)
                            ELSE @]
        S2 == trim_props(S1, S.props, DOMAIN S.props, Pkeep, Tkeep)
    IN  [S2 EXCEPT !.geometries =
            [g \in 1..Len(@) |-> trim_geometry(S2, @[g], Pkeep, Tkeep)]]

\* trim raises before anything is written
trim_raises_early(S, pores, throats) ==
    \/ has_dependents(S, FALSE)
    \/ pores # <<>> /\ find_neighbor_throats_raises(S, pores)
    \/ /\ pores # <<>> \/ throats # <<>>
       /\ ~(pores # <<>> /\ find_neighbor_throats_raises(S, pores))
       /\ remap_raises(S, trim_Tkeep(S, pores, throats))

\* trim raises
trim_raises(S, pores, throats) ==
    \/ trim_raises_early(S, pores, throats)
    \/ /\ pores # <<>> \/ throats # <<>>
       /\ ~trim_raises_early(S, pores, throats)
       /\ update_network_raises(trim_arrays(S, pores, throats), "regenerate")

\* trim(pores, throats): the object when the call returns or raises
trim(S, pores, throats) ==
    IF has_dependents(S, FALSE) THEN S
    ELSE IF pores = <<>> /\ throats = <<>> THEN S
    ELSE IF trim_raises_early(S, pores, throats) THEN S
    ELSE update_network(trim_arrays(S, pores, throats), "regenerate")


\* ------------------------------------------------------------------------
\* Initial networks and the inputs of the calls
\* ------------------------------------------------------------------------
\* the stored arrays of an object, without its caches
Snap(S) == [coords |-> S.coords, conns |-> S.conns, pore_all |-> S.pore_all,
            throat_all |-> S.throat_all, props |-> S.props]

\* a snapshot that records nothing
NoSnap == [coords |-> <<>>, conns |-> <<>>, pore_all |-> <<>>,
           throat_all |-> <<>>, props |-> [k \in {} |-> <<>>]]

\* GenericNetwork(coords, conns) for a chain of n pores, followed by the
\* definition of one boolean and one numeric array per element
PathNetwork(n) ==
    [coords |-> [i \in 1..n |-> <<i - 1, 0, 0>>],
     conns |-> [t \in 1..(n - 1) |-> <<t - 1, t>>],
     pore_all |-> ones(n),
     throat_all |-> ones(n - 1),
     props |-> [k \in {<<"pore", "lab">>, <<"pore", "val">>,
                       <<"throat", "lab">>, <<"throat", "val">>} |->
                  IF k = <<"pore", "lab">>
                  THEN [dtype |-> "bool", data |-> [i \in 1..n |-> i % 2 = 1]]
                  ELSE IF k = <<"pore", "val">>
                  THEN [dtype |-> "float", data |-> [i \in 1..n |-> 10 + i]]
                  ELSE IF k = <<"throat", "lab">>
                  THEN [dtype |-> "bool", data |-> [t \in 1..(n - 1) |-> t % 2 = 0]]
                  ELSE [dtype |-> "int", data |-> [t \in 1..(n - 1) |-> 20 + t]]],
     adjacency_matrix |-> [f \in {} |-> Cleared],
     incidence_matrix |-> [f \in {} |-> Cleared],
     geometries |-> <<>>,
     phases |-> <<>>]

\* GenericGeometry(network=N, name=name, pores=Ps, throats=Ts) with one array
\* of its own: the Geometry joins N._geometries, N gets the labels
\* 'pore.<name>' and 'throat.<name>', the Geometry the maps to Ps and Ts
with_geometry(N, name, Ps, Ts) ==
    LET label(n, on) == [dtype |-> "bool", data |-> [i \in 1..n |-> (i - 1) \in Range(on)]]
        geom == [name |-> name,
                 pore_map |-> Ps, throat_map |-> Ts,
                 pore_all |-> ones(Len(Ps)), throat_all |-> ones(Len(Ts)),
                 props |-> (<<"pore", "diameter">> :>
                               [dtype |-> "float", data |-> [i \in 1..Len(Ps) |-> 30 + i]])]
    IN  [N EXCEPT !.props = (<<"pore", name>> :> label(Len(N.coords), Ps))
                            @@ (<<"throat", name>> :> label(Len(N.conns), Ts)) @@ @,
                  !.geometries = Append(@, geom)]

\* GenericPhase(network=N, name=name): the Phase joins N._phases
with_phase(N, name) == [N EXCEPT !.phases = Append(@, name)]

\* the first n index numbers, as an index list
first(n) == [i \in 1..n |-> i - 1]

\* the networks a run starts from: chains of two, three and four pores,
\* bare, with a Geometry on all pores but the last, with a Phase, with both
InitialNetworks ==
    {PathNetwork(n) : n \in 2..4}
    \cup {with_geometry(PathNetwork(n), "geo", first(n - 1), first(n - 2)) : n \in 3..4}
    \cup {with_phase(PathNetwork(n), "air") : n \in 3..4}
    \cup {with_phase(with_geometry(PathNetwork(3), "geo", first(2), first(1)), "air")}

\* <<pore_coords, throat_conns>> arguments of extend on a network of Np pores
ExtendArgs(Np) ==
    {<< <<<<7, 7, 7>>>>, <<>> >>,                       \* one pore
     << <<>>, <<<<0, Np - 1>>>> >>,                     \* one throat between old pores
     << <<<<7, 7, 7>>>>, <<<<0, Np>>>> >>,              \* a pore and a throat to it
     << <<<<7, 7, 7>>, <<8, 8, 8>>>>,
        <<<<Np, Np + 1>>, <<0, 1>>>> >>,                \* two pores, two throats
     << <<>>, <<<<0, Np>>>> >>,                         \* a throat to a pore that is not there
     << <<>>, <<<<0, 0>>>> >>,                          \* a throat from a pore to itself
     << <<<<7, 7, 7, 7>>>>, <<>> >>,                    \* a coordinate row too wide
     << <<<<7, 7, 7>>>>, <<<<0, 1, 2>>>> >>}            \* a connection row too wide

\* pores arguments of clone on a network of Np pores
ClonePores(Np) == {<<0>>, <<Np - 2, Np - 1>>, <<Np - 1, Np - 2>>}

\* index lists given to trim on n elements: each single index, the last two
IndexLists(n) ==
    {<<i>> : i \in 0..(n - 1)} \cup {p \in {<<n - 2, n - 1>>} : n >= 2}

\* the call record kept in 'last'
Call(op, status, pores, throats, mode, apply_label, pore_coords, throat_conns) ==
    [op |-> op, status |-> status, pores |-> pores, throats |-> throats,
     mode |-> mode, apply_label |-> apply_label,
     pore_coords |-> pore_coords, throat_conns |-> throat_conns]

\* a query: the method, how it ended, its arguments, the value returned
Query(op, status, args, result) ==
    [op |-> op, status |-> status, args |-> args, result |-> result]

\* no query was made
NoQuery == Query("none", "ok", <<>>, <<>>)

\* write the object back
Commit(S) ==
    /\ coords' = S.coords
    /\ conns' = S.conns
    /\ pore_all' = S.pore_all
    /\ throat_all' = S.throat_all
    /\ props' = S.props
    /\ adjacency_matrix' = S.adjacency_matrix
    /\ incidence_matrix' = S.incidence_matrix
    /\ geometries' = S.geometries
    /\ phases' = S.phases

\* a further call can be made
CanCall == nops < MaxOps /\ last.status = "ok"

\* the trims that undo the last extend can always be made
CanUndo == last.status = "ok" /\ rt.stage = "extended"

Init ==
    /\ \E N \in InitialNetworks : 
          /\ coords = N.coords
          /\ conns = N.conns
          /\ pore_all = N.pore_all
          /\ throat_all = N.throat_all
          /\ props = N.props
          /\ adjacency_matrix = N.adjacency_matrix
          /\ incidence_matrix = N.incidence_matrix
          /\ geometries = N.geometries
          /\ phases = N.phases
    /\ query = NoQuery
    /\ last = Call("init", "ok", <<>>, <<>>, "", <<>>, <<>>, <<>>)
    /\ pre = NoSnap
    /\ rt = [stage |-> "idle", orig |-> NoSnap]
    /\ nops = 0

\* ------------------------------------------------------------------------
\* Actions
\* ------------------------------------------------------------------------
\* the outcome of a call: the object it leaves and whether it raised
Outcome(S, raised) == [S |-> S, status |-> IF raised THEN "raised" ELSE "ok"]

\* pn.extend(pore_coords=pc, throat_conns=tc)
Extend ==
    /\ CanCall
    /\ \E args \in ExtendArgs(num_pores(Self)) :
         \E r \in {Outcome(extend(Self, args[1], args[2]),
                           extend_raises(Self, args[1], args[2]))} :
            /\ num_pores(Self) + Len(args[1]) <= MaxNp
            /\ num_throats(Self) + Len(args[2]) <= MaxNt
            /\ Commit(r.S)
            /\ last' = Call("extend", r.status, <<>>, <<>>, "", <<>>, args[1], args[2])
            /\ rt' = IF r.status = "raised" THEN [stage |-> "idle", orig |-> NoSnap]
                     ELSE [stage |-> "extended", orig |-> Snap(Self)]
    /\ pre' = Snap(Self)
    /\ nops' = nops + 1
    /\ UNCHANGED query

\* pn.clone(pores=P, apply_label=labels, mode=mode)
Clone ==
    /\ CanCall
    /\ \E P \in ClonePores(num_pores(Self)) :
         \E labels \in {<<"clone">>} :
           \E mode \in {"parents", "siblings", "isolated"} :
              /\ \A k \in 1..Len(P) : P[k] \in 0..(num_pores(Self) - 1)
              /\ num_pores(Self) + Len(P) <= MaxNp
              /\ num_throats(Self) + Len(P) <= MaxNt
              /\ \E r \in {Outcome(clone(Self, P, labels, mode),
                                   clone_raises(Self, P, labels, mode))} :
                    /\ Commit(r.S)
                    /\ last' = Call("clone", r.status, P, <<>>, mode, labels, <<>>, <<>>)
    /\ rt' = [stage |-> "idle", orig |-> NoSnap]
    /\ pre' = Snap(Self)
    /\ nops' = nops + 1
    /\ UNCHANGED query

\* the trim continues the round trip: it removes exactly the pores, or
\* exactly the throats, that the extend added and that are still there; a
\* trim of pores takes the throats that touch them, so none of the throats
\* from before the extend may touch an added pore
RemovesAdded(S, P, T) ==
    \/ /\ P # <<>>
       /\ Range(P) = {i \in 0..(num_pores(S) - 1) : i >= Len(rt.orig.coords)}
       /\ \A t \in 1..Len(rt.orig.conns) :
             /\ S.conns[t][1] < Len(rt.orig.coords)
             /\ S.conns[t][2] < Len(rt.orig.coords)
    \/ /\ P = <<>>
       /\ Range(T) = {t \in 0..(num_throats(S) - 1) : t >= Len(rt.orig.conns)}

\* rt after a trim
TrimRoundTrip(S, P, T, status) ==
    IF rt.stage = "extended" /\ status = "ok" /\ RemovesAdded(S, P, T) THEN rt
    ELSE [stage |-> "idle", orig |-> NoSnap]

\* the trim leaves at least one pore and one throat
LeavesNetwork(S) == Len(S.coords) >= 1 /\ Len(S.conns) >= 1

\* pn.trim(pores=P)
TrimPores ==
    /\ \E P \in IndexLists(num_pores(Self)) :
         /\ CanCall \/ (CanUndo /\ RemovesAdded(Self, P, <<>>))
         /\ \E r \in {Outcome(trim(Self, P, <<>>), trim_raises(Self, P, <<>>))} :
               /\ r.status = "raised" \/ LeavesNetwork(r.S)
               /\ Commit(r.S)
               /\ last' = Call("trim", r.status, P, <<>>, "", <<>>, <<>>, <<>>)
               /\ rt' = TrimRoundTrip(Self, P, <<>>, r.status)
    /\ pre' = Snap(Self)
    /\ nops' = nops + 1
    /\ UNCHANGED query

\* pn.trim(throats=T)
TrimThroats ==
    /\ \E T \in IndexLists(num_throats(Self)) :
         /\ CanCall \/ (CanUndo /\ RemovesAdded(Self, <<>>, T))
         /\ \E r \in {Outcome(trim(Self, <<>>, T), trim_raises(Self, <<>>, T))} :
               /\ r.status = "raised" \/ LeavesNetwork(r.S)
               /\ Commit(r.S)
               /\ last' = Call("trim", r.status, <<>>, T, "", <<>>, <<>>, <<>>)
               /\ rt' = TrimRoundTrip(Self, <<>>, T, r.status)
    /\ pre' = Snap(Self)
    /\ nops' = nops + 1
    /\ UNCHANGED query

Next == Extend \/ Clone \/ TrimPores \/ TrimThroats

Spec == Init /\ [][Next]_vars

\* ------------------------------------------------------------------------
\* num_neighbors
\* ------------------------------------------------------------------------
\* a count stored in an array of dtype int8
int8(n) == ((n + 128) % 256) - 128

\* num_neighbors(pores, flatten): a number when flatten, else one count for
\* every element of what find_neighbor_pores(pores, flatten=False) returned
num_neighbors(S, pores, flatten) ==
    IF flatten THEN Len(find_neighbor_pores(S, pores, "union", TRUE, TRUE))
    ELSE LET neighborPs == find_neighbor_pores(S, pores, "union", FALSE, TRUE)
         IN  array([i \in 1..Len(neighborPs) |-> int8(Len(neighborPs[i]))])

\* ------------------------------------------------------------------------
\* queries handed an empty list of pores
\* ------------------------------------------------------------------------
\* sp.array([], ndmin=1) has dtype float64; rows[[pores]] with that array as
\* the index raises IndexError where the build refuses a float array as an
\* index and yields no row where the build accepts an empty one
float_index_raises(pores, accepted) == pores = <<>> /\ ~accepted

\* self._adjacency_matrix after the except branch ran
adjacency_rebuilt(S) ==
    IF create_adjacency_matrix_raises(S, default_data(S), TRUE, TRUE) THEN S
    ELSE [S EXCEPT !.adjacency_matrix =
            [f \in DOMAIN @ \cup {"lil"} |->
                IF f = "lil" THEN create_adjacency_matrix(S, default_data(S), "lil", TRUE, TRUE)
                ELSE @[f]]]

\* self._incidence_matrix after the except branch ran
incidence_rebuilt(S) ==
    IF create_incidence_matrix_raises(S, default_data(S), TRUE) THEN S
    ELSE [S EXCEPT !.incidence_matrix =
            [f \in DOMAIN @ \cup {"lil"} |->
                IF f = "lil" THEN create_incidence_matrix(S, default_data(S), "lil", TRUE)
                ELSE @[f]]]

\* ------------------------------------------------------------------------
\* find_connected_pores, find_clusters
\* ------------------------------------------------------------------------
\* arr[idx] with an integer array idx, as a basic slice would give it: a view
\* whose writes reach arr
index_view(arr, idx) ==
    [data |-> array([i \in 1..Len(idx) |-> At(arr, idx[i])]), view |-> TRUE]

\* arr[idx] with an integer array idx: advanced indexing, a new array whose
\* writes do not reach arr
index_copy(arr, idx) ==
    [data |-> array([i \in 1..Len(idx) |-> At(arr, idx[i])]), view |-> FALSE]

\* sp.hstack raises: it is handed no array to concatenate
hstack_raises(lists) == lists = <<>>

\* find_connected_pores raises: a throat number outside throat.conns, or no
\* row to stack when flatten is true
find_connected_pores_raises(S, throats, flatten) ==
    \/ \E i \in 1..Len(throats) : throats[i] \notin Idx(S.conns)
    \/ flatten /\ hstack_raises(index_copy(S.conns, throats).data)

\* find_connected_pores(throats, flatten)
find_connected_pores(S, throats, flatten) ==
    LET Ps == index_copy(S.conns, throats)
    IN  IF flatten THEN [data |-> unique(hstack(Ps.data)), view |-> FALSE] ELSE Ps

\* a boolean written into an integer array
as_int(b) == IF b THEN 1 ELSE 0

\* which branch of find_clusters a mask takes: the test on Nt comes first
mask_branch(S, mask) ==
    IF Len(mask) = num_throats(S) THEN "throats"
    ELSE IF Len(mask) = num_pores(S) THEN "pores"
    ELSE "neither"

\* conns after conns[:,0] = mask[conns[:,0]]; conns[:,1] = mask[conns[:,1]]
masked_conns(S, mask) ==
    LET c == find_connected_pores(S, throats_all(S), FALSE).data
    IN  array([t \in 1..Len(c) |-> <<as_int(At(mask, c[t][1])), as_int(At(mask, c[t][2]))>>])

\* temp: the weight of every throat handed to create_adjacency_matrix
throat_weights(S, mask) ==
    IF mask_branch(S, mask) = "throats"
    THEN array([t \in 1..Len(mask) |-> as_int(mask[t])])
    ELSE LET c == masked_conns(S, mask)
         IN  array([t \in 1..Len(c) |-> as_int(c[t][1] * c[t][2] # 0)])

\* find_clusters raises: a mask of neither length, a pore number the mask
\* does not have, or a matrix that cannot be built
find_clusters_raises(S, mask) ==
    \/ mask_branch(S, mask) = "neither"
    \/ /\ mask_branch(S, mask) = "pores"
       /\ \E t \in 1..Len(S.conns) : \E k \in 1..2 : S.conns[t][k] \notin Idx(mask)
    \/ create_adjacency_matrix_raises(S, throat_weights(S, mask), TRUE, TRUE)

\* the column indices stored in row r of a csr matrix
csr_row(m, r) == Range(SubSeq(m.indices, At(m.indptr, r) + 1, At(m.indptr, r + 1)))

\* the nodes reached from the set seen along stored entries, either
\* direction; stored[p] is the set of columns stored in row p
RECURSIVE reach(_, _)
reach(stored, seen) ==
    LET more == {q \in DOMAIN stored :
                    \E p \in seen : q \in stored[p] \/ p \in stored[q]}
    IN  IF more \subseteq seen THEN seen ELSE reach(stored, seen \cup more)

\* the lowest node of the component of node p
component_root(stored, p) ==
    LET nodes == reach(stored, {p})
    IN  CHOOSE r \in nodes : \A q \in nodes : r <= q

\* sprs.csgraph.connected_components(m)[1]: components numbered from 0 in the
\* order of their lowest node
connected_components(m) ==
    LET stored == [p \in 0..(m.shape[1] - 1) |-> csr_row(m, p)]
        root == [p \in DOMAIN stored |-> component_root(stored, p)]
        roots == {root[p] : p \in DOMAIN root}
    IN  array([i \in 1..m.shape[1] |-> Cardinality({r \in roots : r < root[i - 1]})])

\* find_clusters(mask): the array of cluster numbers
find_clusters(S, mask) ==
    connected_components(
        create_adjacency_matrix(S, throat_weights(S, mask), "csr", TRUE, TRUE))

\* throat.conns after find_clusters: written through only if the array the
\* pore branch fills is a view of it
find_clusters_conns(S, mask) ==
    IF /\ mask_branch(S, mask) = "pores"
       /\ find_connected_pores(S, throats_all(S), FALSE).view
       /\ \A t \in 1..Len(S.conns) : \A k \in 1..2 : S.conns[t][k] \in Idx(mask)
    THEN masked_conns(S, mask)
    ELSE S.conns

\* ------------------------------------------------------------------------
\* find_interface_throats
\* ------------------------------------------------------------------------
\* find_neighbor_throats leaves by its early return: no pore asked for has a
\* throat, and the value returned is the Python list [] instead of an array
find_neighbor_throats_early(S, pores) ==
    LET lil == find_neighbor_throats_cache(S, pores)["lil"]
    IN  \A i \in 1..Len(pores) : At(lil.rows, pores[i]) = <<>>

\* sp.in1d(a, b): for every element of a whether it is in b
in1d(a, b) == array([i \in 1..Len(a) |-> a[i] \in Range(b)])

\* the network after the find_neighbor_throats call on the pores
after_neighbor_throats(S, pores) ==
    IF find_neighbor_throats_raises(S, pores) THEN S
    ELSE [S EXCEPT !.incidence_matrix = find_neighbor_throats_cache(S, pores)]

\* the else branch is reached: two labels whose pores do not overlap
interface_sought(S, labels) ==
    /\ Len(labels) = 2
    /\ Range(labelled(S, "pore", labels[1])) \cap Range(labelled(S, "pore", labels[2])) = {}

\* find_interface_throats raises: a neighbour search raises, or T1 is the
\* list of the early return, which T1[Tmask] cannot index with an array
find_interface_throats_raises(S, labels) ==
    /\ interface_sought(S, labels)
    /\ LET P1 == labelled(S, "pore", labels[1])
           P2 == labelled(S, "pore", labels[2])
           S1 == after_neighbor_throats(S, P1)
       IN  \/ find_neighbor_throats_raises(S, P1)
           \/ find_neighbor_throats_raises(S1, P2)
           \/ find_neighbor_throats_early(S, P1)

\* the network after find_interface_throats: both neighbour searches may have
\* filled the incidence cache, also when the last line raises
find_interface_throats_object(S, labels) ==
    IF ~interface_sought(S, labels) THEN S
    ELSE LET S1 == after_neighbor_throats(S, labelled(S, "pore", labels[1]))
         IN  IF find_neighbor_throats_raises(S, labelled(S, "pore", labels[1])) THEN S
             ELSE after_neighbor_throats(S1, labelled(S, "pore", labels[2]))

\* find_interface_throats(labels): Tind
find_interface_throats(S, labels) ==
    IF ~interface_sought(S, labels) THEN <<>>
    ELSE LET P1 == labelled(S, "pore", labels[1])
             P2 == labelled(S, "pore", labels[2])
             S1 == after_neighbor_throats(S, P1)
             T1 == find_neighbor_throats(S, P1, "union", TRUE)
             T2 == find_neighbor_throats(S1, P2, "union", TRUE)
         IN  mask_select(T1, in1d(T1, T2))

\* ------------------------------------------------------------------------
\* find_connecting_throat
\* ------------------------------------------------------------------------
\* sp.intersect1d(a, b): the sorted values found in both
intersect1d(a, b) == sorted(Range(a) \cap Range(b))

\* find_connecting_throat raises: a neighbour search raises, or a pair of
\* different pores is looked up in the empty list of an early return
find_connecting_throat_raises(S, P1, P2) ==
    LET S1 == after_neighbor_throats(S, P1)
    IN  \/ find_neighbor_throats_raises(S, P1)
        \/ find_neighbor_throats_raises(S1, P2)
        \/ /\ \E row \in 1..Len(P1) : P1[row] # P2[row]
           /\ find_neighbor_throats_early(S, P1) \/ find_neighbor_throats_early(S1, P2)

\* the network after find_connecting_throat: the incidence cache filled
find_connecting_throat_object(S, P1, P2) ==
    IF find_neighbor_throats_raises(S, P1) THEN S
    ELSE after_neighbor_throats(after_neighbor_throats(S, P1), P2)

\* find_connecting_throat(P1, P2): Ts
find_connecting_throat(S, P1, P2) ==
    LET S1 == after_neighbor_throats(S, P1)
        Ts1 == find_neighbor_throats(S, P1, "union", FALSE)
        Ts2 == find_neighbor_throats(S1, P2, "union", FALSE)
    IN  [row \in 1..Len(P1) |->
            IF P1[row] = P2[row] THEN <<>> ELSE intersect1d(Ts1[row], Ts2[row])]

\* ------------------------------------------------------------------------
\* check_network_health
\* ------------------------------------------------------------------------
\* sp.where(arr == v)[0]: the positions that hold v
where_equal(arr, v) ==
    SelectSeq(array([i \in 1..Len(arr) |-> i - 1]), LAMBDA p : At(arr, p) = v)

\* coo.tocoo(): a coo matrix as it is, duplicate entries left apart
tocoo(m) == m

\* the sum of the stored values of a coo matrix whose (row, col) pass keep
\* sprs.triu(m, k): the entries of m on or above the k-th diagonal
triu(m, k) ==
    LET kept == SelectSeq(array([i \in 1..Len(m.data) |-> i]),
                          LAMBDA i : m.col[i] - m.row[i] >= k)
    IN  [m EXCEPT !.data = array([n \in 1..Len(kept) |-> m.data[kept[n]]]),
                  !.row = array([n \in 1..Len(kept) |-> m.row[kept[n]]]),
                  !.col = array([n \in 1..Len(kept) |-> m.col[kept[n]]])]

\* m.sum(): the sum of the stored entries from the i-th on
RECURSIVE coo_sum(_, _)
coo_sum(m, i) ==
    IF i > Len(m.data) THEN 0
    ELSE m.data[i] + coo_sum(m, i + 1)

\* adjmat: one entry of 1 per throat, at (conns[t][0], conns[t][1])
health_adjmat(S) ==
    coo_matrix(array([t \in 1..Len(S.throat_all) |-> as_int(S.throat_all[t])]),
               column(S.conns, 0), column(S.conns, 1), num_pores(S), num_pores(S))

\* Ps12: the (row, col) of the entries of temp whose value exceeds 1
merged_pairs(S) ==
    LET temp == tocoo(health_adjmat(S))
        mergedTs == SelectSeq(array([i \in 1..Len(temp.data) |-> i]),
                              LAMBDA i : temp.data[i] > 1)
    IN  array([k \in 1..Len(mergedTs) |-> <<temp.row[mergedTs[k]], temp.col[mergedTs[k]]>>])

\* check_network_health raises: a pore search or the cluster search raises,
\* the matrix cannot be built, or a connecting throat is looked up for two
\* numbers, which have no length
check_network_health_raises(S) ==
    \/ find_neighbor_pores_raises(S, pores_all(S))
    \/ find_clusters_raises(after_neighbor_pores(S, pores_all(S)), ones(num_throats(S)))
    \/ coo_raises(column(S.conns, 0), column(S.conns, 1), num_pores(S), num_pores(S))
    \/ merged_pairs(S) # <<>>

\* check_network_health(): the dictionary returned; dupTs gets one lookup per
\* merged pair, and where the call returns there was none
check_network_health(S) ==
    LET Ps == num_neighbors(S, pores_all(S), FALSE)
        Cs == find_clusters(after_neighbor_pores(S, pores_all(S)), ones(num_throats(S)))
        adjmat == health_adjmat(S)
        num_full == coo_sum(adjmat, 1)
        num_upper == coo_sum(triu(adjmat, 1), 1)
    IN  [isolated_pores |-> where_equal(Ps, 0),
         disconnected_clusters |->
             IF Len(unique(Cs)) > 1
             THEN array([k \in 1..Len(unique(Cs)) |-> where_equal(Cs, unique(Cs)[k])])
             ELSE <<>>,
         duplicate_throats |-> <<>>,
         bidirectional_throats |-> IF num_full > num_upper THEN num_full - num_upper ELSE 0]

\* ------------------------------------------------------------------------
\* Queries: the networks asked, the questions, the actions
\* ------------------------------------------------------------------------
\* GenericNetwork(coords, conns) for n pores on a line and the given throats
Network(n, throat_conns) ==
    [coords |-> [i \in 1..n |-> <<i - 1, 0, 0>>],
     conns |-> throat_conns,
     pore_all |-> ones(n),
     throat_all |-> ones(Len(throat_conns)),
     props |-> [k \in {} |-> <<>>],
     adjacency_matrix |-> [f \in {} |-> Cleared],
     incidence_matrix |-> [f \in {} |-> Cleared],
     geometries |-> <<>>,
     phases |-> <<>>]

\* the pairs of distinct pores of a network of n pores, lower number first
Pairs(n) == {pr \in (0..(n - 1)) \X (0..(n - 1)) : pr[1] < pr[2]}

\* a set of pairs as a throat.conns array, rows in ascending order
conns_of(T, n) ==
    LET codes == sorted({pr[1] * n + pr[2] : pr \in T})
    IN  [t \in 1..Len(codes) |-> <<codes[t] \div n, codes[t] % n>>]

\* the throat.conns arrays asked about: up to MaxQueryNt throats between
\* distinct pores, and for small networks the same with the first throat
\* given twice
ThroatLists(n) ==
    LET sets == {T \in SUBSET Pairs(n) : Cardinality(T) \in 1..MaxQueryNt}
    IN  {conns_of(T, n) : T \in sets}
        \cup {conns_of(T, n) \o <<conns_of(T, n)[1]>> :
                 T \in {U \in sets : n <= 3 /\ Cardinality(U) < MaxQueryNt}}

\* the networks asked about
QueryNetworks ==
    UNION {{Network(n, tc) : tc \in ThroatLists(n)} : n \in 2..MaxQueryNp}

\* the lists of pores asked about: up to MaxListLen distinct pores, ascending
PoreLists(n) ==
    {sorted(X) : X \in {Y \in SUBSET (0..(n - 1)) : Cardinality(Y) \in 1..MaxListLen}}

\* a network as constructed, or with the matrices a trim leaves in the caches
QueryInit ==
    /\ \E N \in QueryNetworks : \E mode \in {"clear", "regenerate"} :
          \E S \in {IF mode = "regenerate" THEN update_network(N, mode) ELSE N} :
              /\ coords = S.coords
              /\ conns = S.conns
              /\ pore_all = S.pore_all
              /\ throat_all = S.throat_all
              /\ props = S.props
              /\ adjacency_matrix = S.adjacency_matrix
              /\ incidence_matrix = S.incidence_matrix
              /\ geometries = S.geometries
              /\ phases = S.phases
    /\ query = NoQuery
    /\ last = Call("init", "ok", <<>>, <<>>, "", <<>>, <<>>, <<>>)
    /\ pre = NoSnap
    /\ rt = [stage |-> "idle", orig |-> NoSnap]
    /\ nops = 0

\* the outcome of a query: the object it leaves, the value it returns (none
\* when it raised)
Answer(S, raised, result) ==
    [S |-> S, status |-> IF raised THEN "raised" ELSE "ok",
     result |-> IF raised THEN <<>> ELSE result]

\* pn.find_neighbor_pores(pores=P, mode=mode, flatten=flatten, excl_self=excl_self)
FindNeighborPores ==
    /\ query.op = "none"
    /\ \E P \in PoreLists(num_pores(Self)) :
         \E mode \in {"union", "intersection", "not_intersection"} :
           \E flatten \in BOOLEAN : \E excl_self \in BOOLEAN :
             \E r \in {Answer(after_neighbor_pores(Self, P),
                               find_neighbor_pores_raises(Self, P),
                               find_neighbor_pores(Self, P, mode, flatten, excl_self))} :
                /\ Commit(r.S)
                /\ query' = Query("find_neighbor_pores", r.status,
                                  [pores |-> P, mode |-> mode, flatten |-> flatten,
                                   excl_self |-> excl_self],
                                  r.result)
    /\ UNCHANGED <<last, pre, rt, nops>>

\* pn.num_neighbors(pores=P, flatten=flatten)
NumNeighbors ==
    /\ query.op = "none"
    /\ \E P \in PoreLists(num_pores(Self)) : \E flatten \in BOOLEAN :
         \E r \in {Answer(after_neighbor_pores(Self, P),
                           find_neighbor_pores_raises(Self, P),
                           num_neighbors(Self, P, flatten))} :
            /\ Commit(r.S)
            /\ query' = Query("num_neighbors", r.status,
                              [pores |-> P, flatten |-> flatten], r.result)
    /\ UNCHANGED <<last, pre, rt, nops>>

\* the masks handed to find_clusters: every boolean array of length Nt, every
\* one of length Np, and one of neither length
ClusterMasks(S) ==
    {array(f) : f \in [1..num_throats(S) -> BOOLEAN]}
    \cup {array(f) : f \in [1..num_pores(S) -> BOOLEAN]}
    \cup {ones(num_pores(S) + num_throats(S))}

\* pn.find_clusters(mask), and once more with the same mask
FindClusters ==
    /\ \/ query.op = "none"
       \/ query.op = "find_clusters" /\ query.status = "ok" /\ ~query.args.again
    /\ \E mask \in IF query.op = "none" THEN ClusterMasks(Self) ELSE {query.result.mask} :
         \E r \in {Answer(IF find_clusters_raises(Self, mask) THEN Self
                           ELSE [Self EXCEPT !.conns = find_clusters_conns(Self, mask)],
                           find_clusters_raises(Self, mask),
                           [clusters |-> find_clusters(Self, mask), mask |-> mask])} :
            /\ Commit(r.S)
            /\ query' = Query("find_clusters", r.status,
                              [mask |-> mask, again |-> query.op # "none"], r.result)
    /\ UNCHANGED <<last, pre, rt, nops>>

\* the label arrays assigned: boolean arrays of length Np with at most
\* MaxLabelled pores marked
LabelMasks(S) ==
    {array(f) : f \in {g \in [1..num_pores(S) -> BOOLEAN] :
                          Cardinality({i \in DOMAIN g : g[i]}) <= MaxLabelled}}

\* pn['pore.a'] = mask, then pn['pore.b'] = mask
SetLabel ==
    /\ \E name \in {"a", "b"} : \E mask \in LabelMasks(Self) :
          /\ \/ query.op = "none" /\ name = "a"
             \/ query.op = "setitem" /\ query.args.key = <<"pore", "a">> /\ name = "b"
          /\ Commit(setitem(Self, <<"pore", name>>, [dtype |-> "bool", data |-> mask]))
          /\ query' = Query("setitem", "ok", [key |-> <<"pore", name>>], <<>>)
    /\ UNCHANGED <<last, pre, rt, nops>>

\* pn.find_interface_throats(labels=labels) once both labels are assigned
FindInterfaceThroats ==
    /\ query.op = "setitem"
    /\ query.args.key = <<"pore", "b">>
    /\ \E labels \in {<<"a", "b">>, <<"a">>, <<"a", "b", "a">>} :
         \E r \in {Answer(find_interface_throats_object(Self, labels),
                           find_interface_throats_raises(Self, labels),
                           find_interface_throats(Self, labels))} :
            /\ Commit(r.S)
            /\ query' = Query("find_interface_throats", r.status,
                              [labels |-> labels], r.result)
    /\ UNCHANGED <<last, pre, rt, nops>>

\* the pairs of pore lists asked about: equal lengths up to MaxPairs, any pores
PairLists(n) ==
    UNION {[1..k -> (0..(n - 1)) \X (0..(n - 1))] : k \in 1..MaxPairs}

\* pn.find_connecting_throat(P1, P2)
FindConnectingThroat ==
    /\ query.op = "none"
    /\ \E pl \in PairLists(num_pores(Self)) :
         \E P1 \in {array([i \in DOMAIN pl |-> pl[i][1]])} :
           \E P2 \in {array([i \in DOMAIN pl |-> pl[i][2]])} :
             \E r \in {Answer(find_connecting_throat_object(Self, P1, P2),
                               find_connecting_throat_raises(Self, P1, P2),
                               find_connecting_throat(Self, P1, P2))} :
                /\ Commit(r.S)
                /\ query' = Query("find_connecting_throat", r.status,
                                  [P1 |-> P1, P2 |-> P2], r.result)
    /\ UNCHANGED <<last, pre, rt, nops>>

\* pn.find_neighbor_throats(pores=P, mode=mode, flatten=flatten)
FindNeighborThroats ==
    /\ query.op = "none"
    /\ \E P \in PoreLists(num_pores(Self)) :
         \E mode \in {"union", "intersection", "not_intersection"} :
           \E flatten \in BOOLEAN :
             \E r \in {Answer(after_neighbor_throats(Self, P),
                               find_neighbor_throats_raises(Self, P),
                               find_neighbor_throats(Self, P, mode, flatten))} :
                /\ Commit(r.S)
                /\ query' = Query("find_neighbor_throats", r.status,
                                  [pores |-> P, mode |-> mode, flatten |-> flatten],
                                  r.result)
    /\ UNCHANGED <<last, pre, rt, nops>>

\* the lists of throats asked about: none, or up to MaxListLen distinct
\* throats, ascending
ThroatNumberLists(S) ==
    {sorted(X) : X \in {Y \in SUBSET (0..(num_throats(S) - 1)) : Cardinality(Y) <= MaxListLen}}

\* pn.find_connected_pores(throats=Ts, flatten=flatten)
FindConnectedPores ==
    /\ query.op = "none"
    /\ \E Ts \in ThroatNumberLists(Self) : \E flatten \in BOOLEAN :
         \E r \in {Answer(Self, find_connected_pores_raises(Self, Ts, flatten),
                           find_connected_pores(Self, Ts, flatten).data)} :
            /\ Commit(r.S)
            /\ query' = Query("find_connected_pores", r.status,
                              [throats |-> Ts, flatten |-> flatten], r.result)
    /\ UNCHANGED <<last, pre, rt, nops>>

\* pn.find_neighbor_pores(pores=[], mode=mode, flatten=flatten,
\* excl_self=excl_self), on a build that accepts the empty float index or not
FindNeighborPoresOfNone ==
    /\ query.op = "none"
    /\ \E mode \in {"union", "intersection", "not_intersection"} :
         \E flatten \in BOOLEAN : \E excl_self \in BOOLEAN : \E accepted \in BOOLEAN :
           \E r \in {Answer(IF float_index_raises(<<>>, accepted) THEN adjacency_rebuilt(Self)
                             ELSE after_neighbor_pores(Self, <<>>),
                             \/ float_index_raises(<<>>, accepted)
                             \/ find_neighbor_pores_raises(Self, <<>>),
                             find_neighbor_pores(Self, <<>>, mode, flatten, excl_self))} :
              /\ Commit(r.S)
              /\ query' = Query("find_neighbor_pores", r.status,
                                [pores |-> <<>>, mode |-> mode, flatten |-> flatten,
                                 excl_self |-> excl_self, accepted |-> accepted],
                                r.result)
    /\ UNCHANGED <<last, pre, rt, nops>>

\* pn.find_neighbor_throats(pores=[], mode=mode, flatten=flatten)
FindNeighborThroatsOfNone ==
    /\ query.op = "none"
    /\ \E mode \in {"union", "intersection", "not_intersection"} :
         \E flatten \in BOOLEAN : \E accepted \in BOOLEAN :
           \E r \in {Answer(IF float_index_raises(<<>>, accepted) THEN incidence_rebuilt(Self)
                             ELSE after_neighbor_throats(Self, <<>>),
                             \/ float_index_raises(<<>>, accepted)
                             \/ find_neighbor_throats_raises(Self, <<>>),
                             find_neighbor_throats(Self, <<>>, mode, flatten))} :
              /\ Commit(r.S)
              /\ query' = Query("find_neighbor_throats", r.status,
                                [pores |-> <<>>, mode |-> mode, flatten |-> flatten,
                                 accepted |-> accepted],
                                r.result)
    /\ UNCHANGED <<last, pre, rt, nops>>

\* pn.num_neighbors(pores=[], flatten=flatten)
NumNeighborsOfNone ==
    /\ query.op = "none"
    /\ \E flatten \in BOOLEAN : \E accepted \in BOOLEAN :
         \E r \in {Answer(IF float_index_raises(<<>>, accepted) THEN adjacency_rebuilt(Self)
                           ELSE after_neighbor_pores(Self, <<>>),
                           \/ float_index_raises(<<>>, accepted)
                           \/ find_neighbor_pores_raises(Self, <<>>),
                           num_neighbors(Self, <<>>, flatten))} :
            /\ Commit(r.S)
            /\ query' = Query("num_neighbors", r.status,
                              [pores |-> <<>>, flatten |-> flatten, accepted |-> accepted],
                              r.result)
    /\ UNCHANGED <<last, pre, rt, nops>>

\* the networks whose health is checked: those asked about, and networks of
\* pores without any throat
HealthNetworks == QueryNetworks \cup {Network(n, <<>>) : n \in 1..MaxQueryNp}

\* a network to check, as constructed or with the matrices a trim leaves
HealthInit ==
    /\ \E N \in HealthNetworks : \E mode \in {"clear", "regenerate"} :
          \E S \in {IF mode = "regenerate" THEN update_network(N, mode) ELSE N} :
              /\ coords = S.coords
              /\ conns = S.conns
              /\ pore_all = S.pore_all
              /\ throat_all = S.throat_all
              /\ props = S.props
              /\ adjacency_matrix = S.adjacency_matrix
              /\ incidence_matrix = S.incidence_matrix
              /\ geometries = S.geometries
              /\ phases = S.phases
    /\ query = NoQuery
    /\ last = Call("init", "ok", <<>>, <<>>, "", <<>>, <<>>, <<>>)
    /\ pre = NoSnap
    /\ rt = [stage |-> "idle", orig |-> NoSnap]
    /\ nops = 0

\* pn.check_network_health()
CheckNetworkHealth ==
    /\ query.op = "none"
    /\ \E r \in {Answer(after_neighbor_pores(Self, pores_all(Self)),
                         check_network_health_raises(Self),
                         check_network_health(Self))} :
          /\ Commit(r.S)
          /\ query' = Query("check_network_health", r.status, <<>>, r.result)
    /\ UNCHANGED <<last, pre, rt, nops>>

QueryNext ==
    \/ FindNeighborPores
    \/ FindClusters
    \/ SetLabel
    \/ FindInterfaceThroats
    \/ FindConnectingThroat

QuerySpec == QueryInit /\ [][QueryNext]_vars

\* the same networks asked for neighbouring pores only
NeighbourSpec == QueryInit /\ [][FindNeighborPores]_vars

\* the same networks asked for clusters only
ClusterSpec == QueryInit /\ [][FindClusters]_vars

\* the same networks asked about lists of throats, and about no pore at all
EmptySpec ==
    QueryInit /\ [][\/ FindConnectedPores
                    \/ FindNeighborPoresOfNone
                    \/ FindNeighborThroatsOfNone
                    \/ NumNeighborsOfNone]_vars

\* networks whose health is checked
HealthSpec == HealthInit /\ [][CheckNetworkHealth]_vars

\* the same networks asked for neighbouring pores and their number
CountSpec == QueryInit /\ [][FindNeighborPores \/ NumNeighbors]_vars

\* the same networks asked for neighbouring throats only
ThroatSpec == QueryInit /\ [][FindNeighborThroats]_vars

\* ------------------------------------------------------------------------
\* Mutations interleaved with neighbour queries
\* ------------------------------------------------------------------------
\* a query may follow the last mutation a run allows
CanAsk == nops <= MaxOps /\ last.status = "ok"

\* the lists of pores asked about between mutations: each pore, and all
AskedLists(S) == {<<p>> : p \in 0..(num_pores(S) - 1)} \cup {pores_all(S)}

\* pn.find_neighbor_pores(pores=P) between mutations
AskNeighborPores ==
    /\ CanAsk
    /\ \E P \in AskedLists(Self) :
         \E r \in {Answer(after_neighbor_pores(Self, P),
                           find_neighbor_pores_raises(Self, P),
                           find_neighbor_pores(Self, P, "union", TRUE, TRUE))} :
            /\ Commit(r.S)
            /\ last' = Call("find_neighbor_pores", r.status, P, <<>>, "union",
                            <<>>, <<>>, <<>>)
            /\ query' = Query("find_neighbor_pores", r.status,
                              [pores |-> P, mode |-> "union", flatten |-> TRUE,
                               excl_self |-> TRUE],
                              r.result)
    /\ nops' = nops + 1
    /\ UNCHANGED <<pre, rt>>

\* pn.find_neighbor_throats(pores=P) between mutations
AskNeighborThroats ==
    /\ CanAsk
    /\ \E P \in AskedLists(Self) :
         \E r \in {Answer(after_neighbor_throats(Self, P),
                           find_neighbor_throats_raises(Self, P),
                           find_neighbor_throats(Self, P, "union", TRUE))} :
            /\ Commit(r.S)
            /\ last' = Call("find_neighbor_throats", r.status, P, <<>>, "union",
                            <<>>, <<>>, <<>>)
            /\ query' = Query("find_neighbor_throats", r.status,
                              [pores |-> P, mode |-> "union", flatten |-> TRUE],
                              r.result)
    /\ nops' = nops + 1
    /\ UNCHANGED <<pre, rt>>

CacheNext == Next \/ AskNeighborPores \/ AskNeighborThroats

CacheSpec == Init /\ [][CacheNext]_vars


\* ------------------------------------------------------------------------
\* Vocabulary of the properties
\* ------------------------------------------------------------------------
\* the current pore and throat counts: the rows of pore.coords and throat.conns
Np == Len(coords)
Nt == Len(conns)

\* the last call returned: every call of the run so far returned
Returned == last.status = "ok"

\* a row of throat.conns names two pores that exist
RowInRange(row, n) == row[1] \in 0..(n - 1) /\ row[2] \in 0..(n - 1)

\* every row names two distinct pores that exist
ValidConns == \A t \in 1..Nt : RowInRange(conns[t], Np) /\ conns[t][1] # conns[t][2]

\* the stored arrays now, as a snapshot
Now == Snap(Self)

\* ------------------------------------------------------------------------
\* C1
\* ------------------------------------------------------------------------
\* C1: after any sequence of extend, clone and trim calls that returned
\* without raising, both pore indices of every row of throat.conns are in
\* [0, Np) for the current Np.
C1_ConnsInRange ==
    Returned => \A t \in 1..Nt : RowInRange(conns[t], Np)

\* ------------------------------------------------------------------------
\* C2
\* ------------------------------------------------------------------------
\* C2: after calls that returned without raising, every stored pore array
\* has length Np, every stored throat array has length Nt, and pore.all and
\* throat.all are all-true arrays of exactly those lengths.
C2_Lengths ==
    Returned =>
        /\ Len(pore_all) = Np /\ \A i \in 1..Len(pore_all) : pore_all[i]
        /\ Len(throat_all) = Nt /\ \A t \in 1..Len(throat_all) : throat_all[t]
        /\ \A k \in DOMAIN props :
              Len(props[k].data) = (IF k[1] = "pore" THEN Np ELSE Nt)

\* C2 witness: a returned trim that followed a returned clone, so the label
\* arrays made by the clone have been through a resize
C2_Witness ==
    /\ Returned /\ last.op = "trim" /\ nops = 2
    /\ <<"pore", "clone">> \in DOMAIN props
    /\ Np < Len(pre.coords) /\ Nt < Len(pre.conns)

\* ------------------------------------------------------------------------
\* C3
\* ------------------------------------------------------------------------
\* the indices of the entries of a coo matrix stored in column c
ColumnEntries(m, c) == {i \in 1..Len(m.col) : m.col[i] = c /\ m.data[i] # 0}

\* C3: when every throat.conns row names two distinct existing pores, the
\* matrix built by create_incidence_matrix with default arguments is Np x Nt
\* and every throat column t has exactly two nonzero entries, at the rows
\* conns[t][0] and conns[t][1].
C3_IncidenceColumns ==
    (Returned /\ ValidConns) =>
        LET m == create_incidence_matrix(Self, default_data(Self), "coo", TRUE)
        IN  /\ ~create_incidence_matrix_raises(Self, default_data(Self), TRUE)
            /\ m.shape = <<Np, Nt>>
            /\ \A t \in 0..(Nt - 1) :
                  /\ Cardinality(ColumnEntries(m, t)) = 2
                  /\ {m.row[i] : i \in ColumnEntries(m, t)}
                        = {At(conns, t)[1], At(conns, t)[2]}

\* C3 witness: a valid network with several throats obtained by an extend
\* followed by a trim
C3_Witness ==
    /\ Returned /\ ValidConns /\ last.op = "trim" /\ nops = 2
    /\ Nt >= 2 /\ Np > 4
    /\ incidence_matrix["coo"].shape = <<Np, Nt>>

\* ------------------------------------------------------------------------
\* C4
\* ------------------------------------------------------------------------
\* the elements of 0..(n - 1) outside S, in ascending order
Survivors(n, S) == sorted((0..(n - 1)) \ S)

\* the position an old index takes among the survivors
NewIndex(surv, p) == CHOOSE k \in 0..(Len(surv) - 1) : At(surv, k) = p

\* the old throats with no endpoint in S, in ascending order
SurvivingThroats(old, S) ==
    sorted({t \in 0..(Len(old.conns) - 1) :
               At(old.conns, t)[1] \notin S /\ At(old.conns, t)[2] \notin S})

\* the values of an array at the listed old indices
Taken(arr, surv) == [k \in 1..Len(surv) |-> At(arr, surv[k])]

\* the network is what is left of the snapshot `old` once the pores S went
TrimmedFrom(old, S) ==
    LET ps == Survivors(Len(old.coords), S)
        ts == SurvivingThroats(old, S)
    IN  /\ coords = Taken(old.coords, ps)
        /\ Nt = Len(ts)
        /\ \A k \in 1..Len(ts) :
              conns[k] = <<NewIndex(ps, At(old.conns, ts[k])[1]),
                           NewIndex(ps, At(old.conns, ts[k])[2])>>
        /\ DOMAIN props = DOMAIN old.props
        /\ \A key \in DOMAIN old.props :
              props[key].data =
                  Taken(old.props[key].data, IF key[1] = "pore" THEN ps ELSE ts)

\* the four-pore path with throats (0,1), (1,2), (2,3)
IsPath4(old) ==
    Len(old.coords) = 4 /\ old.conns = <<<<0, 1>>, <<1, 2>>, <<2, 3>>>>

\* C4: trim(pores=S) removes exactly the pores in S and exactly the throats
\* with an endpoint in S, renumbers the surviving pores to 0..Np'-1 in their
\* old order, rewrites every surviving throat to the new indices, and keeps
\* in every property array exactly the values of the surviving elements; on
\* the four-pore path trim(pores=[1]) leaves Np = 3, Nt = 1 and the throat
\* (1,2).
C4_TrimPores ==
    (Returned /\ last.op = "trim" /\ last.pores # <<>>) =>
        /\ TrimmedFrom(pre, Range(last.pores))
        /\ (IsPath4(pre) /\ last.pores = <<1>>) =>
              (Np = 3 /\ Nt = 1 /\ conns = <<<<1, 2>>>>)

\* C4 witness: trim(pores=[1]) has returned on the four-pore path
C4_Witness ==
    /\ Returned /\ last.op = "trim" /\ last.pores = <<1>>
    /\ IsPath4(pre) /\ Nt = 1

\* ------------------------------------------------------------------------
\* C5
\* ------------------------------------------------------------------------
\* the trims after an extend have brought both counts back
RoundTripDone ==
    /\ Returned /\ last.op = "trim" /\ rt.stage = "extended"
    /\ Np = Len(rt.orig.coords) /\ Nt = Len(rt.orig.conns)

\* C5: an extend followed by trims that remove exactly the added pores and
\* throats restores Np, Nt, pore.coords, throat.conns and the values of
\* every property array, boolean and numeric.
C5_RoundTrip ==
    RoundTripDone =>
        /\ coords = rt.orig.coords
        /\ conns = rt.orig.conns
        /\ pore_all = rt.orig.pore_all
        /\ throat_all = rt.orig.throat_all
        /\ DOMAIN props = DOMAIN rt.orig.props
        /\ \A key \in DOMAIN rt.orig.props :
              props[key].data = rt.orig.props[key].data

\* C5 witness: an extend added pores and throats and it took a trim of the
\* pores and then a trim of a throat to remove them
C5_Witness ==
    /\ RoundTripDone /\ nops = 3
    /\ last.throats # <<>>
    /\ Len(pre.coords) = Np /\ Len(pre.conns) = Nt + 1

\* ------------------------------------------------------------------------
\* C6
\* ------------------------------------------------------------------------
\* the counts before the last call
PreNp == Len(pre.coords)
PreNt == Len(pre.conns)

\* the last call was a clone that returned
Cloned == Returned /\ last.op = "clone"

\* the index of the clone of pore p: the clone of P[k] is PreNp + k
CloneOf(P, p) == PreNp + (CHOOSE k \in 0..(Len(P) - 1) : At(P, k) = p)

\* the old throats with both endpoints in P, in ascending order
InnerThroats(old, P) ==
    sorted({t \in 0..(Len(old.conns) - 1) :
               At(old.conns, t)[1] \in Range(P) /\ At(old.conns, t)[2] \in Range(P)})

\* the rows of throat.conns appended by the last call
NewRows == SubSeq(conns, PreNt + 1, Nt)

\* C6: clone(pores=P, mode='siblings') gives the clone of P[k] the index
\* Np + k and adds exactly one throat per existing throat whose endpoints
\* a and b are both in P, joining clone(a) and clone(b); every new throat
\* joins two clone pores.
C6_Siblings ==
    (Cloned /\ last.mode = "siblings") =>
        LET P == last.pores
            inner == InnerThroats(pre, P)
        IN  /\ Np = PreNp + Len(P)
            /\ \A k \in 0..(Len(P) - 1) : At(coords, PreNp + k) = At(pre.coords, At(P, k))
            /\ Len(NewRows) = Len(inner)
            /\ \A j \in 1..Len(NewRows) :
                  /\ {NewRows[j][1], NewRows[j][2]}
                        = {CloneOf(P, At(pre.conns, inner[j])[1]),
                           CloneOf(P, At(pre.conns, inner[j])[2])}
                  /\ NewRows[j][1] \in PreNp..(Np - 1)
                  /\ NewRows[j][2] \in PreNp..(Np - 1)

\* ------------------------------------------------------------------------
\* C7
\* ------------------------------------------------------------------------
\* the first n values of an array
Prefix(arr, n) == SubSeq(arr, 1, n)

\* the throats that touch pore p
TouchingThroats(p) == {t \in 1..Nt : conns[t][1] = p \/ conns[t][2] = p}

\* the last call left every pore and throat it found as it was
OldUnchanged ==
    /\ Prefix(coords, PreNp) = pre.coords
    /\ Prefix(conns, PreNt) = pre.conns
    /\ \A key \in DOMAIN pre.props :
          /\ key \in DOMAIN props
          /\ Prefix(props[key].data, Len(pre.props[key].data)) = pre.props[key].data

\* what clone promises of its last call
CloneModesHold ==
    LET P == last.pores
    IN  /\ Np = PreNp + Len(P)
        /\ \A k \in 0..(Len(P) - 1) : At(coords, PreNp + k) = At(pre.coords, At(P, k))
        /\ OldUnchanged
        /\ last.mode = "parents" =>
              NewRows = [k \in 1..Len(P) |-> <<P[k], PreNp + k - 1>>]
        /\ last.mode = "isolated" =>
              /\ NewRows = <<>>
              /\ \A p \in PreNp..(Np - 1) : TouchingThroats(p) = {}
        /\ (last.mode = "isolated" /\ P = <<0>> /\ PreNp = 2 /\ PreNt = 1) =>
              (Np = 3 /\ Nt = 1 /\ TouchingThroats(2) = {})

\* C7: every clone mode appends |P| pores whose coordinates copy those of
\* P in order and leaves the existing pores and throats unchanged; 'parents'
\* adds exactly the throats (P[k], Np + k), 'isolated' adds none, so every
\* clone has no neighbour; cloning pore 0 of a two-pore one-throat network
\* in mode 'isolated' gives Np = 3, Nt = 1 and a pore 2 without neighbours.
C7_CloneModes == Cloned => CloneModesHold

\* the same of a clone of a network whose throats all named pores that
\* were there: the clones then take indices no throat names
CloneModesOfSound ==
    (Cloned /\ \A t \in 1..PreNt : RowInRange(pre.conns[t], PreNp)) => CloneModesHold

\* pore 0 of the two-pore network was cloned in mode 'isolated' and then two
\* pores of the result were cloned in mode 'parents'
ClonedTwice ==
    /\ Cloned /\ last.mode = "parents" /\ last.pores = <<2, 1>>
    /\ PreNp = 3 /\ pre.conns = <<<<0, 1>>>>
    /\ <<"pore", "clone">> \in DOMAIN pre.props
    /\ Np = 5 /\ Nt = 3

\* ------------------------------------------------------------------------
\* C8
\* ------------------------------------------------------------------------
\* C8: for every label L of apply_label that did not exist beforehand,
\* after clone pore.L is true exactly on the new pores and throat.L exactly
\* on the new throats, and false on every pore and throat that was there.
C8_CloneLabels ==
    Cloned =>
        \A j \in 1..Len(last.apply_label) :
            LET L == last.apply_label[j]
            IN  (<<"pore", L>> \notin DOMAIN pre.props
                    /\ <<"throat", L>> \notin DOMAIN pre.props) =>
                    /\ <<"pore", L>> \in DOMAIN props
                    /\ <<"throat", L>> \in DOMAIN props
                    /\ props[<<"pore", L>>].data = [i \in 1..Np |-> i > PreNp]
                    /\ props[<<"throat", L>>].data = [t \in 1..Nt |-> t > PreNt]

\* C8 witness: a clone in mode 'parents' of two pores put the new label
\* 'clone' on two new pores and two new throats
C8_Witness ==
    /\ Cloned /\ last.mode = "parents" /\ Len(last.pores) = 2
    /\ <<"pore", "clone">> \notin DOMAIN pre.props
    /\ <<"throat", "clone">> \in DOMAIN props
    /\ Nt = PreNt + 2 /\ PreNt >= 2

\* ------------------------------------------------------------------------
\* C9
\* ------------------------------------------------------------------------
\* the last call was an extend
Extended == last.op = "extend"

\* an array continued with n copies of a value
Padded(arr, n, v) == arr \o [i \in 1..n |-> v]

\* C9: extend(pore_coords, throat_conns) appends the coordinate rows to
\* pore.coords and the connection rows to throat.conns in the order given,
\* and continues every existing boolean array with False and every existing
\* numeric array with NaN for the added elements.
C9_ExtendAppends ==
    (Extended /\ Returned) =>
        /\ coords = pre.coords \o last.pore_coords
        /\ conns = pre.conns \o last.throat_conns
        /\ DOMAIN props = DOMAIN pre.props
        /\ \A key \in DOMAIN pre.props :
              LET n == IF key[1] = "pore" THEN Len(last.pore_coords)
                       ELSE Len(last.throat_conns)
              IN  props[key].data =
                      Padded(pre.props[key].data, n,
                             IF pre.props[key].dtype = "bool" THEN FALSE ELSE NaN)

\* C9 witness: an extend added two pores and two throats, one of them
\* between the two new pores
C9_Witness ==
    /\ Extended /\ Returned
    /\ Len(last.pore_coords) = 2 /\ Len(last.throat_conns) = 2
    /\ conns[Nt - 1] = <<Np - 2, Np - 1>>
    /\ props[<<"pore", "val">>].data[Np] = NaN

\* ------------------------------------------------------------------------
\* C10
\* ------------------------------------------------------------------------
\* the arguments of the last extend are not a valid input: a connection
\* row names a pore outside the pores there are once the new ones are
\* counted, or a row has the wrong shape
InvalidExtend ==
    \/ \E j \in 1..Len(last.throat_conns) :
          \/ Len(last.throat_conns[j]) # ConnsWidth
          \/ \E c \in 1..Len(last.throat_conns[j]) :
                last.throat_conns[j][c] \notin 0..(PreNp + Len(last.pore_coords) - 1)
    \/ \E j \in 1..Len(last.pore_coords) : Len(last.pore_coords[j]) # CoordsWidth

\* C10: extend is all-or-nothing: on an invalid input it fails and leaves
\* the network exactly as it was.
C10_ExtendAllOrNothing ==
    (Extended /\ InvalidExtend) => (last.status = "raised" /\ Now = pre)

\* ------------------------------------------------------------------------
\* C11
\* ------------------------------------------------------------------------
\* the network has a Geometry or a Phase attached
Attached == geometries # <<>> \/ phases # <<>>

\* C11: extend, clone and trim called while the network has at least one
\* attached Geometry or Phase fail with an error, and the failed call
\* changes no stored array of the network or of the attached objects and no
\* cached matrix.
C11_DependentsRefuse ==
    [][Attached =>
         /\ last'.status = "raised"
         /\ UNCHANGED <<coords, conns, pore_all, throat_all, props,
                        adjacency_matrix, incidence_matrix, geometries, phases>>]_vars

\* the same of extend and clone, and of trim when a Phase is attached
RefusedWhereChecked ==
    [][(Attached /\ (last'.op # "trim" \/ phases # <<>>)) =>
         /\ last'.status = "raised"
         /\ UNCHANGED <<coords, conns, pore_all, throat_all, props,
                        adjacency_matrix, incidence_matrix, geometries, phases>>]_vars

\* a trim returned on a network with a Geometry and took one of its pores
TrimmedUnderGeometry ==
    /\ Returned /\ last.op = "trim" /\ geometries # <<>>
    /\ Len(geometries[1].pore_all) < Len(pre.coords) - 1

\* ------------------------------------------------------------------------
\* Neighbour queries
\* ------------------------------------------------------------------------
\* the pores that share a throat with pore p
Neighbours(p) ==
    {q \in 0..(Np - 1) : \E t \in 1..Nt : conns[t] = <<p, q>> \/ conns[t] = <<q, p>>}

\* the pores handed to the query
InputPores == Range(query.args.pores)

\* the pores that share a throat with at least one input pore
AnyNeighbours == UNION {Neighbours(p) : p \in InputPores}

\* the sequence lists exactly the members of X, each once
IsSetOf(seq, X) == Range(seq) = X /\ Len(seq) = Cardinality(X)

\* find_neighbor_pores was called with flatten=True in the given mode
AskedNeighbours(mode, excl_self) ==
    /\ query.op = "find_neighbor_pores"
    /\ query.args.mode = mode
    /\ query.args.flatten
    /\ query.args.excl_self = excl_self

\* the network is the path 0-1-2-3
QueryPath4 == Np = 4 /\ conns = <<<<0, 1>>, <<1, 2>>, <<2, 3>>>>

\* C12: find_neighbor_pores(P, mode='union', flatten=True, excl_self=True)
\* returns, each once, exactly the pores that share a throat with at least one
\* pore of P and are not in P; the result is disjoint from P, and on the path
\* 0-1-2-3 the result for P=[0,3] is {1,2}.
C12_UnionExcludesSelf ==
    AskedNeighbours("union", TRUE) =>
        /\ query.status = "ok"
        /\ IsSetOf(query.result, AnyNeighbours \ InputPores)
        /\ Range(query.result) \cap InputPores = {}
        /\ (QueryPath4 /\ query.args.pores = <<0, 3>>) => Range(query.result) = {1, 2}

\* the path 0-1-2-3 asked for the union of the neighbours of [0,3]
C12_Witness ==
    /\ AskedNeighbours("union", TRUE)
    /\ QueryPath4
    /\ query.args.pores = <<0, 3>>
    /\ query.result = <<1, 2>>

\* the pores that share a throat with every input pore
CommonNeighbours == {q \in 0..(Np - 1) : \A p \in InputPores : q \in Neighbours(p)}

\* find_neighbor_pores was called with mode='intersection' and flatten=True
AskedIntersection ==
    /\ query.op = "find_neighbor_pores"
    /\ query.args.mode = "intersection"
    /\ query.args.flatten

\* C13: for a list P of two or more distinct pores,
\* find_neighbor_pores(P, mode='intersection', flatten=True) returns exactly
\* the pores that are neighbours of all pores of P; a pore adjacent to only
\* some of the input pores is not returned.
C13_IntersectionOfAll ==
    (AskedIntersection /\ Len(query.args.pores) >= 2) =>
        /\ query.status = "ok"
        /\ IsSetOf(query.result, CommonNeighbours)

\* what the frequency count does give: with two input pores and excl_self=True
\* the pores adjacent to both
IntersectionOfTwo ==
    (AskedIntersection /\ Len(query.args.pores) = 2 /\ query.args.excl_self) =>
        /\ query.status = "ok"
        /\ IsSetOf(query.result, CommonNeighbours)

\* the path 0-1-2-3 asked for the pores common to [0,2,3] answers [1]
PartialNeighbourReturned ==
    /\ AskedIntersection
    /\ QueryPath4
    /\ query.args.pores = <<0, 2, 3>>
    /\ query.args.excl_self
    /\ query.result = <<1>>

\* the pores that appear in the neighbour list of exactly one input pore
SingleNeighbours ==
    {q \in 0..(Np - 1) : Cardinality({p \in InputPores : q \in Neighbours(p)}) = 1}

\* C14: for a list P of distinct pores,
\* find_neighbor_pores(P, mode='not_intersection', flatten=True) returns exactly
\* the pores that appear in the neighbour list of exactly one pore of P, less
\* the members of P when excl_self is true; a pore that is a neighbour of no
\* input pore is never returned.
C14_NotIntersection ==
    \A excl_self \in BOOLEAN :
        AskedNeighbours("not_intersection", excl_self) =>
            /\ query.status = "ok"
            /\ IsSetOf(query.result,
                       IF excl_self THEN SingleNeighbours \ InputPores ELSE SingleNeighbours)
            /\ Range(query.result) \subseteq AnyNeighbours

\* the part of it that holds: with excl_self=True
NotIntersectionExclSelf ==
    AskedNeighbours("not_intersection", TRUE) =>
        /\ query.status = "ok"
        /\ IsSetOf(query.result, SingleNeighbours \ InputPores)

\* the path 0-1-2-3 asked about [0] with excl_self=False answers [0,1]
LonePoreReturned ==
    /\ AskedNeighbours("not_intersection", FALSE)
    /\ QueryPath4
    /\ query.args.pores = <<0>>
    /\ query.result = <<0, 1>>

\* what find_neighbor_pores(P, mode='union') answers for the same pores, flatten
\* and excl_self on the network as it now is
UnionAnswer ==
    find_neighbor_pores(Self, query.args.pores, "union", query.args.flatten,
                        query.args.excl_self)

\* C15: for a list P of at least two pores and the same flatten=True and
\* excl_self, the result of find_neighbor_pores(P, mode='intersection') is a
\* subset of the result of find_neighbor_pores(P, mode='union').
C15_IntersectionInUnion ==
    (AskedIntersection /\ Len(query.args.pores) >= 2) =>
        /\ query.status = "ok"
        /\ ~find_neighbor_pores_raises(Self, query.args.pores)
        /\ Range(query.result) \subseteq Range(UnionAnswer)

\* the path 0-1-2-3 asked for the pores common to [0,2]: [1], of a union [1,3]
C15_Witness ==
    /\ AskedIntersection
    /\ QueryPath4
    /\ query.args.pores = <<0, 2>>
    /\ query.args.excl_self
    /\ query.result = <<1>>
    /\ UnionAnswer = <<1, 3>>

\* C16: with flatten=True, mode='union' and excl_self=False the result of
\* find_neighbor_pores(P) contains an input pore only if that pore is a
\* neighbour of another pore of P; an input pore adjacent to no other input
\* pore is not part of the returned list.
C16_UnionKeepsOnlyNeighbours ==
    AskedNeighbours("union", FALSE) =>
        /\ query.status = "ok"
        /\ \A p \in InputPores \cap Range(query.result) :
              \E q \in InputPores \ {p} : p \in Neighbours(q)

\* the path 0-1-2-3 asked for the neighbours of [0] with excl_self=False
\* answers [0,1]
InputPoreReturned ==
    /\ AskedNeighbours("union", FALSE)
    /\ QueryPath4
    /\ query.args.pores = <<0>>
    /\ query.result = <<0, 1>>

\* what the call does return then: the neighbours and every input pore, or
\* nothing at all when no input pore has a neighbour
UnionWithInputs ==
    AskedNeighbours("union", FALSE) =>
        /\ query.status = "ok"
        /\ IsSetOf(query.result,
                   IF AnyNeighbours = {} THEN {} ELSE AnyNeighbours \cup InputPores)

\* ------------------------------------------------------------------------
\* Clusters
\* ------------------------------------------------------------------------
\* find_clusters was called with a mask of n entries
AskedClusters(n) == query.op = "find_clusters" /\ Len(query.args.mask) = n

\* the throats a mask of length Nt makes active: those with a true entry
ActiveByThroat == {t \in 1..Nt : query.args.mask[t]}

\* the throats a mask of length Np makes active: those with both ends true
ActiveByPore ==
    {t \in 1..Nt : At(query.args.mask, conns[t][1]) /\ At(query.args.mask, conns[t][2])}

\* the pores joined to a pore of the set by a path of the given throats
RECURSIVE JoinedTo(_, _)
JoinedTo(group, active) ==
    LET next == group \cup {conns[t][1] : t \in {u \in active : conns[u][2] \in group}}
                      \cup {conns[t][2] : t \in {u \in active : conns[u][1] \in group}}
    IN  IF next = group THEN group ELSE JoinedTo(next, active)

\* two pores carry the same cluster number exactly if a path of the given
\* throats joins them
ClustersAre(active) ==
    /\ Len(query.result.clusters) = Np
    /\ \A p, q \in 0..(Np - 1) :
          (At(query.result.clusters, p) = At(query.result.clusters, q))
              <=> (q \in JoinedTo({p}, active))

\* the groups of pores that carry one cluster number
Groups(clusters) ==
    {{p \in Idx(clusters) : At(clusters, p) = c} : c \in Range(clusters)}

\* C17: find_clusters(mask) gives two pores the same cluster number if and only
\* if a path of active throats joins them, where a mask of length Nt makes a
\* throat active iff its entry is true and a mask of length Np makes it active
\* iff both of its end pores have a true entry; on the path 0-1-2-3 the
\* all-true throat mask gives one cluster of 4 pores and the mask with only
\* throat (0,1) true gives the groups {0,1}, {2}, {3}.
C17_Clusters ==
    /\ AskedClusters(Nt) => (query.status = "ok" /\ ClustersAre(ActiveByThroat))
    /\ AskedClusters(Np) => (query.status = "ok" /\ ClustersAre(ActiveByPore))
    /\ (AskedClusters(Nt) /\ QueryPath4 /\ query.args.mask = <<TRUE, TRUE, TRUE>>)
          => Groups(query.result.clusters) = {{0, 1, 2, 3}}
    /\ (AskedClusters(Nt) /\ QueryPath4 /\ query.args.mask = <<TRUE, FALSE, FALSE>>)
          => Groups(query.result.clusters) = {{0, 1}, {2}, {3}}

\* the claim where the two lengths differ, so that the length tells which
\* kind of mask was meant
ClustersWhenLengthsDiffer ==
    Np # Nt => C17_Clusters

\* the triangle 0-1-2, as many throats as pores, asked with only pore 0
\* active: the mask is read as a throat mask and pores 0 and 1 share a cluster
PoreMaskReadAsThroats ==
    /\ AskedClusters(Np)
    /\ conns = <<<<0, 1>>, <<0, 2>>, <<1, 2>>>>
    /\ Np = 3
    /\ query.args.mask = <<TRUE, FALSE, FALSE>>
    /\ ActiveByPore = {}
    /\ query.result.clusters = <<0, 0, 1>>

\* the path 0-1-2-3 with only throat (0,1) active
PathSplitInThree ==
    /\ AskedClusters(Nt)
    /\ QueryPath4
    /\ query.args.mask = <<TRUE, FALSE, FALSE>>
    /\ query.result.clusters = <<0, 0, 1, 2>>

\* the path 0-1-2-3 with pore 2 inactive
PoreMaskSplits ==
    /\ AskedClusters(Np)
    /\ QueryPath4
    /\ query.args.mask = <<TRUE, TRUE, FALSE, TRUE>>
    /\ query.result.clusters = <<0, 0, 1, 2>>

\* C18: find_clusters is repeatable and non-mutating: a second call with the
\* same mask and no mutation in between yields the same partition of the
\* pores, and a call with an Nt-long or an Np-long mask leaves throat.conns,
\* the mask and every stored array unchanged.
C18_ClustersRepeatable ==
    [][query'.op = "find_clusters" =>
          /\ UNCHANGED <<coords, conns, pore_all, throat_all, props,
                         adjacency_matrix, incidence_matrix, geometries, phases>>
          /\ query'.status = "ok" => query'.result.mask = query'.args.mask
          /\ query'.args.again =>
                /\ query'.status = "ok"
                /\ Groups(query'.result.clusters) = Groups(query.result.clusters)]_vars

\* the path 0-1-2-3 asked twice with pore 2 inactive: still the path, and the
\* same clusters
C18_Witness ==
    /\ AskedClusters(Np)
    /\ query.args.again
    /\ QueryPath4
    /\ query.args.mask = <<TRUE, TRUE, FALSE, TRUE>>
    /\ query.result.mask = <<TRUE, TRUE, FALSE, TRUE>>
    /\ Groups(query.result.clusters) = {{0, 1}, {2}, {3}}

\* ------------------------------------------------------------------------
\* Interface and connecting throats
\* ------------------------------------------------------------------------
\* the pores that carry a label
LabelSet(name) == {p \in 0..(Np - 1) : At(props[<<"pore", name>>].data, p)}

\* the throats with one end in A and the other in B
Bridging(A, B) ==
    {t - 1 : t \in {u \in 1..Nt : \/ conns[u][1] \in A /\ conns[u][2] \in B
                                  \/ conns[u][1] \in B /\ conns[u][2] \in A}}

\* find_interface_throats was called with the labels a and b
AskedInterface ==
    query.op = "find_interface_throats" /\ query.args.labels = <<"a", "b">>

\* C19: find_interface_throats(labels=[a,b]) returns exactly the throats with
\* one end in the pores labelled a and the other in the pores labelled b when
\* the two sets are disjoint (nothing when there is no such throat or when one
\* of the sets is empty); when the sets overlap, or when the number of labels
\* is not two, it returns an empty result without raising.
C19_InterfaceThroats ==
    query.op = "find_interface_throats" =>
        /\ query.status = "ok"
        /\ IF AskedInterface /\ LabelSet("a") \cap LabelSet("b") = {}
           THEN IsSetOf(query.result, Bridging(LabelSet("a"), LabelSet("b")))
           ELSE query.result = <<>>

\* the part of it that holds: whenever some pore labelled a has a throat
InterfaceWhenFirstTouches ==
    (/\ query.op = "find_interface_throats"
     /\ \E p \in LabelSet("a") : \E t \in 1..Nt : p \in Range(conns[t]))
        => C19_InterfaceThroats

\* the path 0-1-2-3 with no pore labelled a and pore 0 labelled b: the call
\* raises
EmptyLabelRaises ==
    /\ AskedInterface
    /\ QueryPath4
    /\ LabelSet("a") = {}
    /\ LabelSet("b") = {0}
    /\ query.status = "raised"

\* the path 0-1-2-3 with pores 0,1 labelled a and 2,3 labelled b: throat 1
InterfaceFound ==
    /\ AskedInterface
    /\ QueryPath4
    /\ LabelSet("a") = {0, 1}
    /\ LabelSet("b") = {2, 3}
    /\ query.result = <<1>>

\* overlapping labels: an empty result
OverlapGivesNothing ==
    /\ AskedInterface
    /\ QueryPath4
    /\ LabelSet("a") = {0, 1}
    /\ LabelSet("b") = {1, 2}
    /\ query.status = "ok"
    /\ query.result = <<>>

\* the throats whose two ends are the pores p and q
Between(p, q) ==
    {t - 1 : t \in {u \in 1..Nt : conns[u] = <<p, q>> \/ conns[u] = <<q, p>>}}

\* find_connecting_throat was called
AskedConnecting == query.op = "find_connecting_throat"

\* C20: find_connecting_throat(P1, P2) for pore lists of equal length returns
\* one entry per pair, in input order; entry i is empty when P1[i] = P2[i] and
\* otherwise is exactly the set of throats whose two ends are P1[i] and P2[i]
\* (empty when the two pores are not connected).
C20_ConnectingThroat ==
    AskedConnecting =>
        /\ query.status = "ok"
        /\ Len(query.result) = Len(query.args.P1)
        /\ \A i \in 1..Len(query.args.P1) :
              IsSetOf(query.result[i],
                      IF query.args.P1[i] = query.args.P2[i] THEN {}
                      ELSE Between(query.args.P1[i], query.args.P2[i]))

\* a pore has a throat
HasThroat(p) == \E t \in 1..Nt : p \in Range(conns[t])

\* the part of it that holds: whenever each list names a pore that has a throat
ConnectingWhenListsTouch ==
    (/\ AskedConnecting
     /\ \E i \in 1..Len(query.args.P1) : HasThroat(query.args.P1[i])
     /\ \E i \in 1..Len(query.args.P2) : HasThroat(query.args.P2[i]))
        => C20_ConnectingThroat

\* pores 0 and 1 joined, pore 2 on its own: asked for the throat between 2 and
\* 0 the call raises
LonePoreRaises ==
    /\ AskedConnecting
    /\ Np = 3
    /\ conns = <<<<0, 1>>>>
    /\ query.args.P1 = <<2>>
    /\ query.args.P2 = <<0>>
    /\ query.status = "raised"

\* the path 0-1-2-3 asked about the pairs (1,2) and (3,3): throat 1, nothing
ConnectingFound ==
    /\ AskedConnecting
    /\ QueryPath4
    /\ query.args.P1 = <<1, 3>>
    /\ query.args.P2 = <<2, 3>>
    /\ query.result = <<<<1>>, <<>>>>

\* ------------------------------------------------------------------------
\* Neighbouring throats
\* ------------------------------------------------------------------------
\* find_neighbor_throats was called with flatten=True in the given mode
AskedThroats(mode) ==
    /\ query.op = "find_neighbor_throats"
    /\ query.args.mode = mode
    /\ query.args.flatten

\* the throats with exactly k of their two ends among the input pores
ThroatsWithEnds(ks) ==
    {t - 1 : t \in {u \in 1..Nt :
                      Cardinality({e \in 1..2 : conns[u][e] \in InputPores}) \in ks}}

AskedPerPore(op) == query.op = op /\ ~query.args.flatten

\* C25: with flatten=False find_neighbor_pores(P) returns |P| neighbour lists,
\* the i-th being the neighbours of P[i] whatever the mode, and
\* num_neighbors(P, flatten=False) returns |P| counts, the i-th being the
\* number of neighbours of P[i]; for every non-empty P, also when some or all
\* pores of P have no neighbours (an empty list, a count of 0).
C25_PerPore ==
    /\ AskedPerPore("find_neighbor_pores") =>
          /\ query.status = "ok"
          /\ Len(query.result) = Len(query.args.pores)
          /\ \A i \in 1..Len(query.args.pores) :
                IsSetOf(query.result[i], Neighbours(query.args.pores[i]))
    /\ AskedPerPore("num_neighbors") =>
          /\ query.status = "ok"
          /\ Len(query.result) = Len(query.args.pores)
          /\ \A i \in 1..Len(query.args.pores) :
                query.result[i] = Cardinality(Neighbours(query.args.pores[i]))

\* the part of it that holds: whenever some pore of P has a neighbour
PerPoreWhenSomeNeighbour ==
    (query.op \in {"find_neighbor_pores", "num_neighbors"} /\ AnyNeighbours # {})
        => C25_PerPore

\* pores 0 and 1 joined, pore 2 on its own: the neighbour lists of [2] are no
\* list at all
NoListForLonePore ==
    /\ AskedPerPore("find_neighbor_pores")
    /\ Np = 3
    /\ conns = <<<<0, 1>>>>
    /\ query.args.pores = <<2>>
    /\ query.status = "ok"
    /\ query.result = <<>>

\* the same network: the neighbour counts of [2] are no count at all
NoCountForLonePore ==
    /\ AskedPerPore("num_neighbors")
    /\ Np = 3
    /\ conns = <<<<0, 1>>>>
    /\ query.args.pores = <<2>>
    /\ query.status = "ok"
    /\ query.result = <<>>

\* the same network asked about [1,2]: one neighbour, none
CountsWithLonePore ==
    /\ AskedPerPore("num_neighbors")
    /\ Np = 3
    /\ conns = <<<<0, 1>>>>
    /\ query.args.pores = <<1, 2>>
    /\ query.result = <<1, 0>>

\* ------------------------------------------------------------------------
\* Empty input
\* ------------------------------------------------------------------------
\* a neighbour query was handed an empty list
AskedOfNone ==
    \/ query.op = "find_connected_pores" /\ query.args.throats = <<>>
    \/ /\ query.op \in {"find_neighbor_pores", "find_neighbor_throats", "num_neighbors"}
       /\ query.args.pores = <<>>

\* the value returned is empty: no element, or a count of 0 from the
\* flattened num_neighbors
NothingReturned ==
    IF query.op = "num_neighbors" /\ query.args.flatten THEN query.result = 0
    ELSE query.result = <<>>

\* C21: every neighbour query called with an empty input returns an empty
\* result and never raises: find_connected_pores(throats=[]) with flatten true
\* or false, find_neighbor_pores([]) and find_neighbor_throats([]) in every
\* mode, and num_neighbors([]).
C21_EmptyInput ==
    AskedOfNone =>
        /\ query.status = "ok"
        /\ NothingReturned

\* the part of it that holds whatever the build: find_connected_pores of no
\* throat with flatten=False
EmptyUnflattened ==
    (query.op = "find_connected_pores" /\ query.args.throats = <<>> /\ ~query.args.flatten)
        => (query.status = "ok" /\ query.result = <<>>)

\* the part of it that holds on a build that accepts an empty float array as
\* an index
EmptyWhereIndexAccepted ==
    (AskedOfNone /\ query.op # "find_connected_pores" /\ query.args.accepted)
        => (query.status = "ok" /\ NothingReturned)

\* find_connected_pores(throats=[], flatten=True) raises
FlattenOfNoneRaises ==
    /\ query.op = "find_connected_pores"
    /\ QueryPath4
    /\ query.args.throats = <<>>
    /\ query.args.flatten
    /\ query.status = "raised"

\* find_connected_pores of throats 0 and 2 of the path 0-1-2-3, flattened
ConnectedPoresFound ==
    /\ query.op = "find_connected_pores"
    /\ QueryPath4
    /\ query.args.throats = <<0, 2>>
    /\ query.args.flatten
    /\ query.result = <<0, 1, 2, 3>>

\* ------------------------------------------------------------------------
\* Network health
\* ------------------------------------------------------------------------
\* check_network_health was called
AskedHealth == query.op = "check_network_health"

\* the groups of two or more throats that connect the same pair of pores
DuplicateGroups ==
    {Between(pr[1], pr[2]) :
        pr \in {qr \in (0..(Np - 1)) \X (0..(Np - 1)) :
                  qr[1] <= qr[2] /\ Cardinality(Between(qr[1], qr[2])) >= 2}}

\* C22: check_network_health reports under 'duplicate_throats' every group of
\* two or more throats that connect the same pair of pores, and reports
\* nothing there only when no two throats connect the same pair.
C22_DuplicateThroats ==
    AskedHealth =>
        /\ query.status = "ok"
        /\ \A g \in DuplicateGroups :
              \E k \in 1..Len(query.result.duplicate_throats) :
                 Range(query.result.duplicate_throats[k]) = g
        /\ query.result.duplicate_throats = <<>> => DuplicateGroups = {}

\* two pores joined by throats 0 and 1: nothing is reported
DuplicateNotReported ==
    /\ AskedHealth
    /\ Np = 2
    /\ conns = <<<<0, 1>>, <<0, 1>>>>
    /\ query.status = "ok"
    /\ query.result.duplicate_throats = <<>>

\* what is reported instead: never anything
NoDuplicateEverReported ==
    AskedHealth => (query.status = "ok" /\ query.result.duplicate_throats = <<>>)

\* the pores that have no neighbour
IsolatedPores == {p \in 0..(Np - 1) : Neighbours(p) = {}}

\* C23: check_network_health reports under 'isolated_pores' exactly the pores
\* that have zero neighbours, for every network, including one in which no
\* pore has any neighbour (no throats at all).
C23_IsolatedPores ==
    AskedHealth =>
        /\ query.status = "ok"
        /\ IsSetOf(query.result.isolated_pores, IsolatedPores)

\* the part of it that holds: whenever the network has a throat
IsolatedWhenSomeThroat ==
    (AskedHealth /\ Nt > 0) => C23_IsolatedPores

\* three pores and no throat: no isolated pore is reported
AllIsolatedNoneReported ==
    /\ AskedHealth
    /\ Np = 3
    /\ Nt = 0
    /\ query.status = "ok"
    /\ query.result.isolated_pores = <<>>

\* pores 0 and 1 joined, pore 2 on its own: pore 2 is reported, and two clusters
IsolatedReported ==
    /\ AskedHealth
    /\ Np = 3
    /\ conns = <<<<0, 1>>>>
    /\ query.result.isolated_pores = <<2>>
    /\ query.result.disconnected_clusters = <<<<0, 1>>, <<2>>>>


\* ------------------------------------------------------------------------
\* C24: cached matrices under interleaved mutations and neighbour queries
\* ------------------------------------------------------------------------
\* the matrices _update_network(mode='regenerate') builds from the current
\* throat.conns, when they can be built
CanBuildAdjacency == ~create_adjacency_matrix_raises(Self, default_data(Self), TRUE, TRUE)

CanBuildIncidence == ~create_incidence_matrix_raises(Self, default_data(Self), TRUE)

BuiltAdjacency(f) == create_adjacency_matrix(Self, default_data(Self), f, TRUE, TRUE)

BuiltIncidence(f) == create_incidence_matrix(Self, default_data(Self), f, TRUE)

\* every cached entry is cleared or is the matrix of the current throat.conns
CacheFresh ==
    /\ \A f \in DOMAIN adjacency_matrix :
          \/ adjacency_matrix[f] = Cleared
          \/ CanBuildAdjacency /\ adjacency_matrix[f] = BuiltAdjacency(f)
    /\ \A f \in DOMAIN incidence_matrix :
          \/ incidence_matrix[f] = Cleared
          \/ CanBuildIncidence /\ incidence_matrix[f] = BuiltIncidence(f)

AllCleared ==
    /\ adjacency_matrix = [f \in Formats |-> Cleared]
    /\ incidence_matrix = [f \in Formats |-> Cleared]

AllRebuilt ==
    /\ CanBuildAdjacency /\ adjacency_matrix = [f \in Formats |-> BuiltAdjacency(f)]
    /\ CanBuildIncidence /\ incidence_matrix = [f \in Formats |-> BuiltIncidence(f)]

\* what a call that has just returned leaves in the caches
CacheAfterCall ==
    /\ last.op \in {"extend", "clone"} => AllCleared
    /\ last.op = "trim" => AllRebuilt
    /\ last.op = "find_neighbor_pores" =>
          /\ "lil" \in DOMAIN adjacency_matrix
          /\ CanBuildAdjacency
          /\ adjacency_matrix["lil"] = BuiltAdjacency("lil")
    /\ last.op = "find_neighbor_throats" =>
          /\ "lil" \in DOMAIN incidence_matrix
          /\ CanBuildIncidence
          /\ incidence_matrix["lil"] = BuiltIncidence("lil")

\* C24: in every state reached by interleaving extend, clone, trim and
\* neighbour queries each cached adjacency or incidence matrix is cleared or
\* equal to the matrix built from the current throat.conns; when extend or
\* clone return all six entries are cleared, when trim returns all six are
\* rebuilt from the trimmed throat.conns, and a neighbour query that returns
\* has used the list-of-lists matrix of the current throat.conns.
C24_NoStaleCache ==
    /\ CacheFresh
    /\ (last.status = "ok" /\ nops > 0) => CacheAfterCall


\* the same statement for the states in which the last call returned
NoStaleCacheAfterReturn == last.status = "ok" => C24_NoStaleCache

\* an extend that raised after growing pore.all left a cached matrix of
\* the old shape behind
StaleAfterFailedExtend ==
    /\ last.op = "extend" /\ last.status = "raised"
    /\ "lil" \in DOMAIN adjacency_matrix
    /\ adjacency_matrix["lil"] # Cleared
    /\ adjacency_matrix["lil"].shape[1] # num_pores(Self)

\* a neighbour query rebuilt the list-of-lists matrix that extend had cleared
RebuiltAfterClear ==
    /\ last.op = "find_neighbor_pores" /\ last.status = "ok"
    /\ pre # NoSnap
    /\ adjacency_matrix["lil"] = BuiltAdjacency("lil")
    /\ adjacency_matrix["coo"] = Cleared

=============================================================================
